---- MODULE Spec2Model ----
(***************************************************************************)
(* Model of iec-st-tools: the three exporters (st2exp23, st2exp35,         *)
(* st2plcopen) and the three importers (exp2st23, exp2st35, plcopen2st).   *)
(* Texts are strings handled character by character, the way the Go code   *)
(* handles them through package strings and package regexp.  Indices are   *)
(* Go indices (0-based, -1 for "not found").                               *)
(***************************************************************************)
EXTENDS Integers, Sequences, FiniteSets, TLC

\* Local names for values: With(v, LAMBDA x : e) is e with x standing for v,
\* the way the Go code names an intermediate result with x := v.
With(v, F(_)) == F(v)

With2(v, w, F(_, _)) == F(v, w)

With3(u, v, w, F(_, _, _)) == F(u, v, w)

\* ---------------------------------------------------------------------------
\* package strings
\* ---------------------------------------------------------------------------

\* s[lo:hi]
Slice(s, lo, hi) == SubSeq(s, lo + 1, hi)

\* s[lo:]
SliceFrom(s, lo) == SubSeq(s, lo + 1, Len(s))

\* s[i] as a one-character string
At(s, i) == SubSeq(s, i + 1, i + 1)

HasPrefix(s, p) == Len(s) >= Len(p) /\ SubSeq(s, 1, Len(p)) = p

HasSuffix(s, p) == Len(s) >= Len(p) /\ SubSeq(s, Len(s) - Len(p) + 1, Len(s)) = p

TrimPrefix(s, p) == IF HasPrefix(s, p) THEN SliceFrom(s, Len(p)) ELSE s

TrimSuffix(s, p) == IF HasSuffix(s, p) THEN Slice(s, 0, Len(s) - Len(p)) ELSE s

\* unicode.IsSpace restricted to ASCII
IsSpace(c) == c \in {" ", "\t", "\n", "\r", "\f"}

\* The evaluator's stack is shallow, so the scans below are written over the
\* index sequence of the string (SelectSeq) or by halving, never one
\* recursive call per character.  The values are those of package strings.

Indices(n) == [i \in 1..n |-> i - 1]

InCutset(c, cutset) == \E i \in 1..Len(cutset) : SubSeq(cutset, i, i) = c

\* the positions of s whose character is not in cutset, ascending
KeptPositions(s, cutset) ==
    SelectSeq(Indices(Len(s)), LAMBDA i : ~InCutset(At(s, i), cutset))

TrimLeft(s, cutset) ==
    With(KeptPositions(s, cutset),
         LAMBDA k : IF Len(k) = 0 THEN "" ELSE SliceFrom(s, k[1]))

TrimRight(s, cutset) ==
    With(KeptPositions(s, cutset),
         LAMBDA k : IF Len(k) = 0 THEN "" ELSE Slice(s, 0, k[Len(k)] + 1))

SpaceSet == " \t\n\r\f"

\* the first position at or after i whose character is not in cutset
SkipSet(s, i, cutset) ==
    With(SelectSeq(Indices(Len(s)), LAMBDA j : j >= i /\ ~InCutset(At(s, j), cutset)),
         LAMBDA k : IF Len(k) = 0 THEN (IF i > Len(s) THEN i ELSE Len(s)) ELSE k[1])

TrimSpace(s) == TrimRight(TrimLeft(s, SpaceSet), SpaceSet)

\* the positions at or after i where sub occurs in s, ascending
Occurrences(s, sub, i) ==
    IF Len(s) < Len(sub) THEN << >>
    ELSE SelectSeq(Indices(Len(s) - Len(sub) + 1),
                   LAMBDA j : j >= i /\ Slice(s, j, j + Len(sub)) = sub)

IndexFrom(s, sub, i) ==
    With(Occurrences(s, sub, i), LAMBDA occ : IF Len(occ) = 0 THEN -1 ELSE occ[1])

Index(s, sub) == IndexFrom(s, sub, 0)

Contains(s, sub) == Index(s, sub) >= 0

\* strings.Split for a separator that cannot overlap itself ("\n", ",", ":")
Split(s, sep) ==
    With(Occurrences(s, sep, 0),
         LAMBDA occ :
            [k \in 1..(Len(occ) + 1) |->
                Slice(s, IF k = 1 THEN 0 ELSE occ[k - 1] + Len(sep),
                         IF k = Len(occ) + 1 THEN Len(s) ELSE occ[k])])

RECURSIVE Join(_, _)
Join(elems, sep) ==
    IF Len(elems) = 0 THEN ""
    ELSE IF Len(elems) = 1 THEN elems[1]
    ELSE Join(SubSeq(elems, 1, Len(elems) \div 2), sep) \o sep
         \o Join(SubSeq(elems, Len(elems) \div 2 + 1, Len(elems)), sep)

\* the concatenation of a sequence of sequences
RECURSIVE Flatten(_)
Flatten(seqs) == IF Len(seqs) = 0 THEN << >> ELSE Head(seqs) \o Flatten(Tail(seqs))

\* strings.ReplaceAll for an old that cannot overlap itself
ReplaceAll(s, old, new) == Join(Split(s, old), new)

LowerLetters == "abcdefghijklmnopqrstuvwxyz"

UpperLetters == "ABCDEFGHIJKLMNOPQRSTUVWXYZ"

UpperChar(c) ==
    With(Index(LowerLetters, c), LAMBDA i : IF i >= 0 THEN At(UpperLetters, i) ELSE c)

RECURSIVE ToUpper(_)
ToUpper(s) ==
    IF s = "" THEN ""
    ELSE IF Len(s) = 1 THEN UpperChar(s)
    ELSE ToUpper(Slice(s, 0, Len(s) \div 2)) \o ToUpper(SliceFrom(s, Len(s) \div 2))

EqualFold(a, b) == ToUpper(a) = ToUpper(b)

\* strings.Fields: the maximal runs of non-space characters
Fields(s) ==
    With2(SelectSeq(Indices(Len(s)),
              LAMBDA i : ~IsSpace(At(s, i)) /\ (i = 0 \/ IsSpace(At(s, i - 1)))),
          SelectSeq(Indices(Len(s)),
              LAMBDA i : ~IsSpace(At(s, i)) /\ (i = Len(s) - 1 \/ IsSpace(At(s, i + 1)))),
          LAMBDA starts, ends : [k \in 1..Len(starts) |-> Slice(s, starts[k], ends[k] + 1)])

\* the line normalisation every exporter applies to a source file
NormalizeNewlines(raw) == ReplaceAll(ReplaceAll(raw, "\r\n", "\n"), "\r", "\n")

\* ---------------------------------------------------------------------------
\* st2exp23: .st source files -> CoDeSys 2.3 EXP document
\* ---------------------------------------------------------------------------

\* value of the -path flag (its default)
ExpPathFlag == ""

\* detectKind with the FUNCTION case first and without its trailing blank
st2exp23_detectKind_mutant(firstLine) ==
    With(TrimSpace(firstLine),
         LAMBDA t :
            IF HasPrefix(t, "FUNCTION") THEN "kindFunction"
            ELSE IF HasPrefix(t, "FUNCTION_BLOCK ") THEN "kindFunctionBlock"
            ELSE IF HasPrefix(t, "PROGRAM ") THEN "kindProgram"
            ELSE IF HasPrefix(t, "TYPE ") \/ t = "TYPE" THEN "kindType"
            ELSE IF HasPrefix(t, "VAR_GLOBAL") THEN "kindVarGlobal"
            ELSE IF HasPrefix(t, "CONFIGURATION ") THEN "kindConfiguration"
            ELSE "kindUnknown")

st2exp23_detectKind(firstLine) ==
    With(TrimSpace(firstLine),
         LAMBDA t :
            IF HasPrefix(t, "FUNCTION_BLOCK ") THEN "kindFunctionBlock"
            ELSE IF HasPrefix(t, "FUNCTION ") THEN "kindFunction"
            ELSE IF HasPrefix(t, "PROGRAM ") THEN "kindProgram"
            ELSE IF HasPrefix(t, "TYPE ") \/ t = "TYPE" THEN "kindType"
            ELSE IF HasPrefix(t, "VAR_GLOBAL") THEN "kindVarGlobal"
            ELSE IF HasPrefix(t, "CONFIGURATION ") THEN "kindConfiguration"
            ELSE "kindUnknown")

\* sb.WriteString(l + "\r\n") for every line of lines
WriteLinesCRLF(lines) == Join([i \in 1..Len(lines) |-> lines[i] \o "\r\n"], "")

\* index of the last line that is END_VAR after trimming, -1 if none
RECURSIVE st2exp23_lastEndVar(_, _)
st2exp23_lastEndVar(lines, n) ==
    IF n = 0 THEN -1
    ELSE IF TrimSpace(lines[n]) = "END_VAR" THEN n - 1
    ELSE st2exp23_lastEndVar(lines, n - 1)

st2exp23_convertPou(lines, kind, listName, expPath) ==
    "(* @NESTEDCOMMENTS := 'Yes' *)\r\n"
    \o (IF kind = "kindVarGlobal"
        THEN "(* @GLOBAL_VARIABLE_LIST := '" \o listName \o "' *)\r\n"
        ELSE "")
    \o "(* @PATH := '" \o expPath \o "' *)\r\n"
    \o "(* @OBJECTFLAGS := '0, 8' *)\r\n"
    \o (IF kind \in {"kindFunction", "kindFunctionBlock", "kindProgram", "kindVarGlobal"}
        THEN "(* @SYMFILEFLAGS := '2048' *)\r\n"
        ELSE "")
    \o (IF kind \in {"kindFunction", "kindFunctionBlock", "kindProgram"}
        THEN With(st2exp23_lastEndVar(lines, Len(lines)),
                  LAMBDA lastEndVar :
                     IF lastEndVar = -1
                     THEN "(* @END_DECLARATION := '0' *)\r\n" \o WriteLinesCRLF(lines)
                     ELSE WriteLinesCRLF(SubSeq(lines, 1, lastEndVar + 1))
                          \o "(* @END_DECLARATION := '0' *)\r\n"
                          \o WriteLinesCRLF(SubSeq(lines, lastEndVar + 2, Len(lines))))
        ELSE IF kind = "kindType"
        THEN WriteLinesCRLF(lines) \o "(* @END_DECLARATION := '0' *)\r\n"
        ELSE IF kind = "kindVarGlobal"
        THEN WriteLinesCRLF(lines)
             \o "\r\n"
             \o "(* @OBJECT_END := '" \o listName \o "' *)\r\n"
             \o "(* @CONNECTIONS := " \o listName \o "\r\n"
             \o "FILENAME : ''\r\n"
             \o "FILETIME : 0\r\n"
             \o "EXPORT : 0\r\n"
             \o "NUMOFCONNECTIONS : 0\r\n"
             \o "*)\r\n"
        ELSE "")
    \o "\r\n"

\* the leading blanks and tabs of the first line of a VAR_GLOBAL block
LeadingBlanks(s) == Slice(s, 0, SkipSet(s, 0, " \t"))

TrimPrefixAll(block, prefix) == [i \in 1..Len(block) |-> TrimPrefix(block[i], prefix)]

\* the loop of convertConfiguration; the result is <<sb, blockCount>>
RECURSIVE st2exp23_confLoop(_, _, _, _, _, _, _)
st2exp23_confLoop(lines, inVarGlobal, block, blockCount, sb, listName, expPath) ==
    IF Len(lines) = 0 THEN << sb, blockCount >>
    ELSE IF ~inVarGlobal /\ HasPrefix(TrimSpace(lines[1]), "VAR_GLOBAL")
    THEN st2exp23_confLoop(Tail(lines), TRUE, << lines[1] >>, blockCount, sb,
                           listName, expPath)
    ELSE IF inVarGlobal
    THEN IF TrimSpace(lines[1]) = "END_VAR"
         THEN st2exp23_confLoop(Tail(lines), FALSE, << >>, blockCount + 1,
                  sb \o st2exp23_convertPou(
                           TrimPrefixAll(Append(block, lines[1]),
                                         LeadingBlanks(Append(block, lines[1])[1])),
                           "kindVarGlobal", listName, expPath),
                  listName, expPath)
         ELSE st2exp23_confLoop(Tail(lines), TRUE, Append(block, lines[1]), blockCount, sb,
                                listName, expPath)
    ELSE st2exp23_confLoop(Tail(lines), inVarGlobal, block, blockCount, sb, listName, expPath)

\* results of convertFile: the EXP text and the error ("" is nil)
Converted(text) == [block |-> text, err |-> ""]

Failed(msg) == [block |-> "", err |-> msg]

st2exp23_convertConfiguration(lines, listName, expPath) ==
    With(st2exp23_confLoop(lines, FALSE, << >>, 0, "", listName, expPath),
         LAMBDA r :
            IF r[2] = 0
            THEN Failed("CONFIGURATION " \o listName \o " contains no VAR_GLOBAL blocks")
            ELSE Converted(r[1]))

\* number of leading lines that are blank or start with //
RECURSIVE SkipLeading(_, _)
SkipLeading(allLines, start) ==
    IF start < Len(allLines)
       /\ (TrimSpace(allLines[start + 1]) = ""
           \/ HasPrefix(TrimSpace(allLines[start + 1]), "//"))
    THEN SkipLeading(allLines, start + 1)
    ELSE start

RECURSIVE StripTrailingEmpty(_)
StripTrailingEmpty(lines) ==
    IF Len(lines) > 0 /\ TrimSpace(lines[Len(lines)]) = ""
    THEN StripTrailingEmpty(SubSeq(lines, 1, Len(lines) - 1))
    ELSE lines

\* f is a source file [dir, stem, raw]; expPath its @PATH value
st2exp23_convertFile(f, expPath) ==
    With(Split(NormalizeNewlines(f.raw), "\n"),
         LAMBDA allLines :
    With(SkipLeading(allLines, 0),
         LAMBDA start :
            IF start >= Len(allLines)
            THEN Failed("file " \o f.stem \o " contains only comments/blank lines - skipped")
            ELSE
    With(StripTrailingEmpty(SubSeq(allLines, start + 1, Len(allLines))),
         LAMBDA lines :
    With2(st2exp23_detectKind(lines[1]), Fields(TrimSpace(lines[1])),
         LAMBDA kind, parts :
            IF kind = "kindUnknown"
            THEN Failed("file " \o f.stem \o ": unrecognised POU type - skipped")
            ELSE IF kind = "kindConfiguration"
            THEN st2exp23_convertConfiguration(lines,
                     IF Len(parts) >= 2 THEN parts[2] ELSE f.stem, expPath)
            ELSE Converted(st2exp23_convertPou(lines, kind, f.stem, expPath))))))

\* the PATH value main computes from the directory of the file
st2exp23_filePath(f) ==
    IF Len(f.dir) = 0 THEN ExpPathFlag
    ELSE ExpPathFlag \o "\\/" \o Join(f.dir, "\\/")

\* ---------------------------------------------------------------------------
\* package regexp, for the metadata patterns of exp2st23
\* ---------------------------------------------------------------------------

\* \s* from position i: the position of the first non-space character
SkipSpaces(s, i) == SkipSet(s, i, SpaceSet)

LitAt(s, i, lit) == i + Len(lit) <= Len(s) /\ Slice(s, i, i + Len(lit)) = lit

WordChars == "0123456789ABCDEFGHIJKLMNOPQRSTUVWXYZ_abcdefghijklmnopqrstuvwxyz"

\* \w* from position i
SkipWord(s, i) == SkipSet(s, i, WordChars)

NoMatch == [start |-> -1, end |-> -1, val |-> ""]

\* \(\*\s*@KEY\s*:=  matched at position i: the end of the match, -1 if none
MetaHeadAt(s, i, key) ==
    IF ~LitAt(s, i, "(*") THEN -1
    ELSE With(SkipSpaces(s, i + 2),
              LAMBDA j1 :
                 IF ~LitAt(s, j1, "@" \o key) THEN -1
                 ELSE With(SkipSpaces(s, j1 + 1 + Len(key)),
                           LAMBDA j2 : IF LitAt(s, j2, ":=") THEN j2 + 2 ELSE -1))

\* \(\*\s*@KEY\s*:=\s*'([^']*)'\s*\*\)  matched at position i
MetaAt(s, i, key) ==
    With(MetaHeadAt(s, i, key),
         LAMBDA h :
            IF h < 0 THEN NoMatch
            ELSE
    With(SkipSpaces(s, h),
         LAMBDA j3 :
            IF ~LitAt(s, j3, "'") THEN NoMatch
            ELSE
    With(IndexFrom(s, "'", j3 + 1),
         LAMBDA j4 :
            IF j4 < 0 THEN NoMatch
            ELSE
    With(SkipSpaces(s, j4 + 1),
         LAMBDA j5 :
            IF LitAt(s, j5, "*)")
            THEN [start |-> i, end |-> j5 + 2, val |-> Slice(s, j3 + 1, j4)]
            ELSE NoMatch))))

\* leftmost match of the pattern of key at or after position i
FindMeta(s, key, i) ==
    With(SelectSeq(Occurrences(s, "(*", i), LAMBDA j : MetaAt(s, j, key).start >= 0),
         LAMBDA occ : IF Len(occ) = 0 THEN NoMatch ELSE MetaAt(s, occ[1], key))

\* reX.FindAllStringIndex(text, -1): the start positions of all matches
RECURSIVE FindAllMeta(_, _, _, _)
FindAllMeta(s, key, i, acc) ==
    With(FindMeta(s, key, i),
         LAMBDA m : IF m.start < 0 THEN acc
                    ELSE FindAllMeta(s, key, m.end, Append(acc, m.start)))

\* reConnections.MatchString(t)
MatchConnections(t) ==
    \E j \in 0..Len(t) : MetaHeadAt(t, j, "CONNECTIONS") >= 0

\* reMetaLine.MatchString(line):  ^\s*\(\*\s*@\w+\s*:=
reMetaLine(line) ==
    With(SkipSpaces(line, 0),
         LAMBDA i :
            /\ LitAt(line, i, "(*")
            /\ With(SkipSpaces(line, i + 2),
                    LAMBDA j1 :
                       /\ LitAt(line, j1, "@")
                       /\ With(SkipWord(line, j1 + 1),
                               LAMBDA j2 : /\ j2 > j1 + 1
                                           /\ LitAt(line, SkipSpaces(line, j2), ":="))))

\* ---------------------------------------------------------------------------
\* exp2st23: CoDeSys 2.3 EXP document -> .st files
\* ---------------------------------------------------------------------------

\* splitObjects whose every block runs to the end of the text
exp2st23_splitObjects_mutant(text) ==
    With(FindAllMeta(text, "NESTEDCOMMENTS", 0, << >>),
         LAMBDA locs : [i \in 1..Len(locs) |-> Slice(text, locs[i], Len(text))])

\* text[starts[i] : starts[i+1]], the last block running to the end
exp2st23_splitObjects(text) ==
    With(FindAllMeta(text, "NESTEDCOMMENTS", 0, << >>),
         LAMBDA locs :
            [i \in 1..Len(locs) |->
                Slice(text, locs[i], IF i < Len(locs) THEN locs[i + 1] ELSE Len(text))])

RECURSIVE FirstNonBlank(_)
FirstNonBlank(lines) ==
    IF Len(lines) = 0 THEN ""
    ELSE IF TrimSpace(lines[1]) # "" THEN TrimSpace(lines[1])
    ELSE FirstNonBlank(Tail(lines))

exp2st23_firstCodeLine(text) == FirstNonBlank(Split(text, "\n"))

exp2st23_detectKind(decl) ==
    With(ToUpper(exp2st23_firstCodeLine(decl)),
         LAMBDA u :
            IF HasPrefix(u, "FUNCTION_BLOCK ") THEN "kindFunctionBlock"
            ELSE IF HasPrefix(u, "FUNCTION ") THEN "kindFunction"
            ELSE IF HasPrefix(u, "PROGRAM ") THEN "kindProgram"
            ELSE IF HasPrefix(u, "TYPE ") \/ u = "TYPE" THEN "kindType"
            ELSE IF HasPrefix(u, "VAR_GLOBAL") \/ HasPrefix(u, "VAR_CONFIG") THEN "kindGVL"
            ELSE "kindUnknown")

\* the elements of a sequence
Range(q) == { q[i] : i \in 1..Len(q) }

FirstField(s) ==
    With(Fields(s), LAMBDA parts : IF Len(parts) > 0 THEN parts[1] ELSE "")

\* strings.IndexAny(s, chars)
IndexAny(s, chars) ==
    With(SelectSeq(Indices(Len(s)), LAMBDA i : InCutset(At(s, i), chars)),
         LAMBDA k : IF Len(k) = 0 THEN -1 ELSE k[1])

\* the kindType branch of extractName
RECURSIVE exp2st23_typeName(_)
exp2st23_typeName(lines) ==
    IF Len(lines) = 0 THEN ""
    ELSE
    With2(TrimSpace(lines[1]), ToUpper(TrimSpace(lines[1])),
         LAMBDA t0, up :
            IF up = "" \/ up = "TYPE" THEN exp2st23_typeName(Tail(lines))
            ELSE
    With(IF HasPrefix(up, "TYPE ") THEN TrimSpace(SliceFrom(t0, 5)) ELSE t0,
         LAMBDA t :
    With(IndexAny(t, ":("),
         LAMBDA i :
    With(IF i > 0 THEN TrimSpace(Slice(t, 0, i)) ELSE t,
         LAMBDA name :
            IF name # "" THEN name ELSE exp2st23_typeName(Tail(lines))))))

exp2st23_extractName(decl, kind) ==
    With(exp2st23_firstCodeLine(decl),
         LAMBDA line :
            IF kind = "kindFunction" THEN FirstField(SliceFrom(line, Len("FUNCTION ")))
            ELSE IF kind = "kindFunctionBlock"
            THEN FirstField(SliceFrom(line, Len("FUNCTION_BLOCK ")))
            ELSE IF kind = "kindProgram" THEN FirstField(SliceFrom(line, Len("PROGRAM ")))
            ELSE IF kind = "kindType" THEN exp2st23_typeName(Split(decl, "\n"))
            ELSE "")

\* index of the first line that is neither blank nor a metadata line, 0 if none
RECURSIVE exp2st23_contentStart(_, _)
exp2st23_contentStart(lines, i) ==
    IF i >= Len(lines) THEN 0
    ELSE IF TrimSpace(lines[i + 1]) = "" \/ reMetaLine(lines[i + 1])
         THEN exp2st23_contentStart(lines, i + 1)
         ELSE i

exp2st23_isTrailer(t) ==
    \/ t = ""
    \/ t = "*)"
    \/ FindMeta(t, "OBJECT_END", 0).start >= 0
    \/ MatchConnections(t)
    \/ HasPrefix(t, "FILENAME :")
    \/ HasPrefix(t, "FILETIME :")
    \/ HasPrefix(t, "EXPORT :")
    \/ HasPrefix(t, "NUMOFCONNECTIONS :")

RECURSIVE exp2st23_contentEnd(_, _, _)
exp2st23_contentEnd(lines, contentStart, contentEnd) ==
    IF contentEnd - 1 >= contentStart /\ exp2st23_isTrailer(TrimSpace(lines[contentEnd]))
    THEN exp2st23_contentEnd(lines, contentStart, contentEnd - 1)
    ELSE contentEnd

\* parseBlock that takes the kind from the first code line even when the
\* global-variable-list marker is present
exp2st23_parseBlock_mutant(raw) ==
    With3(FindMeta(raw, "GLOBAL_VARIABLE_LIST", 0), FindMeta(raw, "PATH", 0), Split(raw, "\n"),
         LAMBDA gvl, pth, lines :
    With(exp2st23_contentStart(lines, 0),
         LAMBDA contentStart :
    With(Join(SubSeq(lines, contentStart + 1,
                     exp2st23_contentEnd(lines, contentStart, Len(lines))), "\n"),
         LAMBDA content :
    With(FindMeta(content, "END_DECLARATION", 0),
         LAMBDA loc :
    With2(IF loc.start >= 0
          THEN TrimRight(Slice(content, 0, loc.start), "\r\n ")
          ELSE TrimRight(content, "\r\n "),
          IF loc.start >= 0 THEN TrimSpace(SliceFrom(content, loc.end)) ELSE "",
         LAMBDA decl, body :
    With2(exp2st23_detectKind(decl),
          IF gvl.start >= 0 THEN gvl.val ELSE "",
         LAMBDA kind0, name0 :
            [name |-> IF name0 = "" THEN exp2st23_extractName(decl, kind0) ELSE name0,
             kind |-> IF kind0 = "kindGVL"
                         /\ HasPrefix(ToUpper(exp2st23_firstCodeLine(decl)), "VAR_CONFIG")
                      THEN "kindVarConfig" ELSE kind0,
             path |-> IF pth.start >= 0 THEN pth.val ELSE "",
             decl |-> decl, body |-> body]))))))

exp2st23_parseBlock(raw) ==
    With3(FindMeta(raw, "GLOBAL_VARIABLE_LIST", 0), FindMeta(raw, "PATH", 0), Split(raw, "\n"),
         LAMBDA gvl, pth, lines :
    With(exp2st23_contentStart(lines, 0),
         LAMBDA contentStart :
    With(Join(SubSeq(lines, contentStart + 1,
                     exp2st23_contentEnd(lines, contentStart, Len(lines))), "\n"),
         LAMBDA content :
    With(FindMeta(content, "END_DECLARATION", 0),
         LAMBDA loc :
    With2(IF loc.start >= 0
          THEN TrimRight(Slice(content, 0, loc.start), "\r\n ")
          ELSE TrimRight(content, "\r\n "),
          IF loc.start >= 0 THEN TrimSpace(SliceFrom(content, loc.end)) ELSE "",
         LAMBDA decl, body :
    With2(IF gvl.start >= 0 THEN "kindGVL" ELSE exp2st23_detectKind(decl),
          IF gvl.start >= 0 THEN gvl.val ELSE "",
         LAMBDA kind0, name0 :
            [name |-> IF name0 = "" THEN exp2st23_extractName(decl, kind0) ELSE name0,
             kind |-> IF kind0 = "kindGVL"
                         /\ HasPrefix(ToUpper(exp2st23_firstCodeLine(decl)), "VAR_CONFIG")
                      THEN "kindVarConfig" ELSE kind0,
             path |-> IF pth.start >= 0 THEN pth.val ELSE "",
             decl |-> decl, body |-> body]))))))

exp2st23_isSTBody(body) ==
    With(TrimSpace(body),
         LAMBDA t :
            IF t = "" THEN TRUE
            ELSE IF HasPrefix(t, "_FBD_BODY") \/ HasPrefix(t, "_IL_BODY")
                    \/ HasPrefix(t, "_LD_BODY") \/ HasPrefix(t, "_CFC_BODY") THEN FALSE
            ELSE ~HasPrefix(ToUpper(exp2st23_firstCodeLine(t)), "INITIAL_STEP "))

exp2st23_pouEndKeyword(decl) ==
    With(ToUpper(exp2st23_firstCodeLine(decl)),
         LAMBDA u :
            IF HasPrefix(u, "PROGRAM ") THEN "END_PROGRAM"
            ELSE IF HasPrefix(u, "FUNCTION_BLOCK ") THEN "END_FUNCTION_BLOCK"
            ELSE IF HasPrefix(u, "FUNCTION ") THEN "END_FUNCTION"
            ELSE "END_PROGRAM")

\* ---------------------------------------------------------------------------
\* stub synthesis (stubBody of exp2st23, exp2st35 and plcopen2st)
\* ---------------------------------------------------------------------------

\* varName of stubBody for the trimmed line t
StubVarName(t) ==
    With(Index(t, ":"), LAMBDA i : IF i > 0 THEN TrimSpace(Slice(t, 0, i)) ELSE t)

\* rest of stubBody for the trimmed line t
StubRest(t) ==
    TrimSuffix(TrimSpace(TrimLeft(SliceFrom(t, Index(t, ":") + 1), ": \t")), ";")

StubTypeDefault(typeName) ==
    IF typeName = "BOOL" \/ HasSuffix(typeName, "BOOL") THEN "FALSE"
    ELSE IF HasPrefix(typeName, "STRING") THEN "''"
    ELSE "0"

\* defaultVal of stubBody; the caller makes sure fields[0] exists when it is read
StubDefault(rest) ==
    With2(Index(rest, ":="), Fields(rest),
         LAMBDA i, fields :
            IF i >= 0 THEN TrimSuffix(TrimSpace(SliceFrom(rest, i + 2)), ";")
            ELSE IF Len(fields) > 0 THEN StubTypeDefault(ToUpper(fields[1]))
            ELSE "0")

\* a line inside an output block that stubBody turns into an assignment
StubAssigns(t) ==
    /\ ~(t = "" \/ HasPrefix(t, "//") \/ HasPrefix(t, "(*"))
    /\ ~(StubVarName(t) = "" \/ HasPrefix(StubVarName(t), "{"))

\* the loop of stubBody over the lines of the declaration
RECURSIVE StubLoop(_, _, _)
StubLoop(lines, inOut, acc) ==
    IF Len(lines) = 0 THEN acc
    ELSE
    With2(TrimSpace(lines[1]), ToUpper(TrimSpace(lines[1])),
         LAMBDA t, u :
            IF HasPrefix(u, "VAR_OUTPUT") \/ HasPrefix(u, "VAR_IN_OUT")
            THEN StubLoop(Tail(lines), TRUE, acc)
            ELSE IF u = "END_VAR" THEN StubLoop(Tail(lines), FALSE, acc)
            ELSE IF inOut /\ StubAssigns(t)
            THEN StubLoop(Tail(lines), inOut,
                     Append(acc, StubVarName(t) \o " := " \o StubDefault(StubRest(t)) \o ";"))
            ELSE StubLoop(Tail(lines), inOut, acc))

\* the header dash of the source is U+2014; it is written "-" here
exp2st23_stubBody(decl) ==
    Join(StubLoop(Split(decl, "\n"), FALSE,
                  << "// ** GENERATED STUB - original implementation is non-ST (FBD/Ladder/SFC/IL) **",
                     "// Adapt this body for your application logic.",
                     "" >>), "\n")

\* ---------------------------------------------------------------------------
\* exp2st23: .st file generation
\* ---------------------------------------------------------------------------

\* filepath.Join: the non-empty elements joined by the separator
RECURSIVE PathJoin(_)
PathJoin(elems) ==
    IF Len(elems) = 0 THEN ""
    ELSE With(PathJoin(Tail(elems)),
              LAMBDA rest :
                 IF elems[1] = "" THEN rest
                 ELSE IF rest = "" THEN elems[1]
                 ELSE elems[1] \o "/" \o rest)

\* the first ReplaceAll of the source is overwritten by the second
exp2st23_pathToDir(rawPath) ==
    TrimLeft(ReplaceAll(ReplaceAll(rawPath, "\\", ""), "/", "/"), "/")

\* indentBlock, the same function in the three importers
indentBlock(s, prefix) ==
    With(Split(TrimRight(s, "\n"), "\n"),
         LAMBDA lines :
            Join([i \in 1..Len(lines) |->
                     IF TrimSpace(lines[i]) # "" THEN prefix \o lines[i] ELSE lines[i]], "\n"))

exp2st23_generateST(obj) ==
    [content |->
        With3(exp2st23_pouEndKeyword(obj.decl), exp2st23_isSTBody(obj.body),
              TrimRight(obj.decl, "\r\n "),
             LAMBDA endKW, isST, decl :
        With2(TrimRight(IF isST THEN obj.body ELSE exp2st23_stubBody(obj.decl), "\r\n "),
              IF isST THEN ""
              ELSE "\n// NOTE: Original implementation was non-ST (FBD/Ladder/SFC/IL). Stub generated.",
             LAMBDA body, stubFlag :
                IF obj.kind = "kindType" THEN decl \o "\n"
                ELSE IF obj.kind = "kindGVL"
                THEN "// trust-LSP wrapper - compiler extracts VAR_GLOBAL automatically\n"
                     \o "CONFIGURATION " \o obj.name \o "\n" \o indentBlock(decl, "    ")
                     \o "\nEND_CONFIGURATION\n"
                ELSE IF obj.kind = "kindVarConfig"
                THEN "// trust-LSP wrapper - VAR_CONFIG from CoDeSys 2.3\n"
                     \o "CONFIGURATION " \o obj.name \o "\n" \o indentBlock(decl, "    ")
                     \o "\nEND_CONFIGURATION\n"
                ELSE IF obj.kind \in {"kindFunction", "kindFunctionBlock", "kindProgram"}
                THEN IF body = "" THEN decl \o stubFlag \o "\n" \o endKW \o "\n"
                     ELSE IF HasSuffix(ToUpper(TrimSpace(body)), ToUpper(endKW))
                     THEN decl \o stubFlag \o "\n" \o body \o "\n"
                     ELSE decl \o stubFlag \o "\n" \o body \o "\n" \o endKW \o "\n"
                ELSE "// Unknown object: " \o obj.name \o "\n" \o obj.decl \o "\n")),
     relPath |-> PathJoin(<< exp2st23_pathToDir(obj.path), obj.name \o ".st" >>)]

exp2st23_kindLabel(k) ==
    CASE k = "kindFunction" -> "FUNCTION"
      [] k = "kindFunctionBlock" -> "FB"
      [] k = "kindProgram" -> "PROGRAM"
      [] k = "kindType" -> "TYPE"
      [] k = "kindGVL" -> "GVL"
      [] k = "kindVarConfig" -> "VAR_CONFIG"
      [] OTHER -> "UNKNOWN"

\* ---------------------------------------------------------------------------
\* XML text: xmlEscape of the exporters, entity decoding of encoding/xml
\* ---------------------------------------------------------------------------

xmlEscape(s) ==
    ReplaceAll(ReplaceAll(ReplaceAll(ReplaceAll(s, "&", "&amp;"), "<", "&lt;"), ">", "&gt;"),
               "\"", "&quot;")

\* character data as xml.Unmarshal delivers it
xmlUnescape(s) ==
    ReplaceAll(ReplaceAll(ReplaceAll(ReplaceAll(s, "&lt;", "<"), "&gt;", ">"), "&quot;", "\""),
               "&amp;", "&")

\* an element that may be absent: << >> or << value >>
Absent == << >>

Present(v) == << v >>

\* xmlNode.text() of exp2st35: "" for a nil node, else the trimmed content
exp2st35_text(node) == IF node = Absent THEN "" ELSE TrimSpace(xmlUnescape(node[1]))

\* ---------------------------------------------------------------------------
\* st2exp35: .st source files -> CoDeSys 3.5 export tree
\* ---------------------------------------------------------------------------

tFolder == "738bea1e-99bb-4f04-90bb-a7a567e74e3a"

tGVL == "ffbfa93a-b94d-45fc-a329-229860183b1d"

tDUT == "2db5746d-d284-4425-9f7f-2663a34b0ebc"

tPOU == "6f9dac99-8de1-4efc-8465-68ac443b7d08"

\* value of the -base flag of st2exp35 and exp2st35 (its default), split at ","
BasePath == << "Device", "PLC Logic", "Application" >>

\* value of the -strip flag of exp2st35 (its default)
StripFlag == 0

st2exp35_detectKind(line) ==
    With(ToUpper(TrimSpace(line)),
         LAMBDA u :
            IF HasPrefix(u, "PROGRAM ") \/ u = "PROGRAM" THEN "kindProgram"
            ELSE IF HasPrefix(u, "FUNCTION_BLOCK ") \/ u = "FUNCTION_BLOCK"
            THEN "kindFunctionBlock"
            ELSE IF HasPrefix(u, "FUNCTION ") \/ u = "FUNCTION" THEN "kindFunction"
            ELSE IF HasPrefix(u, "VAR_GLOBAL") THEN "kindGVL"
            ELSE IF HasPrefix(u, "TYPE ") \/ u = "TYPE" THEN "kindDUT"
            ELSE IF HasPrefix(u, "CONFIGURATION ") \/ u = "CONFIGURATION"
            THEN "kindConfiguration"
            ELSE "kindProgram")

\* the second result of firstCodeLine: the first line that is not blank, not a
\* comment and not an attribute, trimmed; "" if there is none
RECURSIVE st2exp35_firstCodeLine(_)
st2exp35_firstCodeLine(lines) ==
    IF Len(lines) = 0 THEN ""
    ELSE With(TrimSpace(lines[1]),
              LAMBDA t :
                 IF t = "" \/ HasPrefix(t, "//") \/ HasPrefix(t, "(*")
                    \/ HasPrefix(t, "{attribute") \/ HasPrefix(t, "{")
                 THEN st2exp35_firstCodeLine(Tail(lines))
                 ELSE t)

\* the dedent of one line: a leading tab, else four leading blanks
DedentOne(l) ==
    With(TrimPrefix(l, "\t"),
         LAMBDA trimmed :
            IF trimmed = l /\ Len(l) >= 4 /\ Slice(l, 0, 4) = "    " THEN SliceFrom(l, 4)
            ELSE trimmed)

\* the loop of extractGVLFromConfiguration of st2exp35
RECURSIVE st2exp35_gvlLoop(_, _, _, _)
st2exp35_gvlLoop(lines, inVarGlobal, depth, out) ==
    IF Len(lines) = 0 THEN out
    ELSE
    With(ToUpper(TrimSpace(lines[1])),
         LAMBDA u :
    With2(inVarGlobal \/ HasPrefix(u, "VAR_GLOBAL"),
          IF HasPrefix(u, "VAR_GLOBAL") THEN 1 ELSE depth,
         LAMBDA in1, depth1 :
    With2(in1 /\ HasPrefix(u, "END_VAR"),
          IF in1 /\ HasPrefix(u, "END_VAR") THEN depth1 - 1 ELSE depth1,
         LAMBDA ends, depth2 :
            st2exp35_gvlLoop(Tail(lines),
                             IF ends /\ depth2 = 0 THEN FALSE ELSE in1,
                             depth2,
                             IF in1 THEN Append(out, DedentOne(lines[1])) ELSE out))))

st2exp35_extractGVLFromConfiguration(lines) ==
    Join(st2exp35_gvlLoop(lines, FALSE, 0, << >>), "\n")

isPOUWithImpl(k) == k \in {"kindProgram", "kindFunctionBlock", "kindFunction"}

\* index of the last line that is END_VAR after trimming and upper-casing
RECURSIVE LastEndVarUpper(_, _)
LastEndVarUpper(lines, n) ==
    IF n = 0 THEN -1
    ELSE IF ToUpper(TrimSpace(lines[n])) = "END_VAR" THEN n - 1
    ELSE LastEndVarUpper(lines, n - 1)

\* drop the trailing END_<KIND> keyword lines and blank lines
RECURSIVE DropTrailingEnd(_)
DropTrailingEnd(implLines) ==
    IF Len(implLines) > 0
       /\ ToUpper(TrimSpace(implLines[Len(implLines)]))
            \in {"END_PROGRAM", "END_FUNCTION_BLOCK", "END_FUNCTION", ""}
    THEN DropTrailingEnd(SubSeq(implLines, 1, Len(implLines) - 1))
    ELSE implLines

RECURSIVE DropLeadingBlank(_)
DropLeadingBlank(implLines) ==
    IF Len(implLines) > 0 /\ TrimSpace(implLines[1]) = ""
    THEN DropLeadingBlank(Tail(implLines))
    ELSE implLines

\* index of the first line that is END_VAR after trimming and upper-casing
FirstEndVarUpper(lines) ==
    IF \E i \in 1..Len(lines) : ToUpper(TrimSpace(lines[i])) = "END_VAR"
    THEN (CHOOSE i \in 1..Len(lines) :
             /\ ToUpper(TrimSpace(lines[i])) = "END_VAR"
             /\ \A j \in 1..(i - 1) : ToUpper(TrimSpace(lines[j])) # "END_VAR") - 1
    ELSE -1

\* splitDeclImpl that stops at the first END_VAR line
st2exp35_splitDeclImpl_mutant(src) ==
    With(Split(src, "\n"),
         LAMBDA lines :
    With(FirstEndVarUpper(lines),
         LAMBDA lastEndVar :
            IF lastEndVar < 0 THEN [decl |-> src, impl |-> ""]
            ELSE [decl |-> Join(SubSeq(lines, 1, lastEndVar + 1), "\n"),
                  impl |-> Join(DropLeadingBlank(DropTrailingEnd(
                                    SubSeq(lines, lastEndVar + 2, Len(lines)))), "\n")]))

st2exp35_splitDeclImpl(src) ==
    With(Split(src, "\n"),
         LAMBDA lines :
    With(LastEndVarUpper(lines, Len(lines)),
         LAMBDA lastEndVar :
            IF lastEndVar < 0 THEN [decl |-> src, impl |-> ""]
            ELSE [decl |-> Join(SubSeq(lines, 1, lastEndVar + 1), "\n"),
                  impl |-> Join(DropLeadingBlank(DropTrailingEnd(
                                    SubSeq(lines, lastEndVar + 2, Len(lines)))), "\n")]))

\* f is a source file [dir, stem, raw]; guid the fresh identifier of the object
st2exp35_convertFile(f, guid) ==
    With(NormalizeNewlines(f.raw),
         LAMBDA src :
    With(Split(src, "\n"),
         LAMBDA lines :
    With(st2exp35_detectKind(st2exp35_firstCodeLine(lines)),
         LAMBDA kind :
    With(IF kind = "kindConfiguration"
         THEN [decl |-> st2exp35_extractGVLFromConfiguration(lines), impl |-> ""]
         ELSE IF isPOUWithImpl(kind) THEN st2exp35_splitDeclImpl(src)
         ELSE [decl |-> src, impl |-> ""],
         LAMBDA di :
            [guid |-> guid,
             name |-> f.stem,
             kind |-> IF kind = "kindConfiguration" THEN "kindGVL" ELSE kind,
             decl |-> TrimRight(di.decl, "\n") \o "\n",
             impl |-> TrimRight(di.impl, "\n") \o "\n",
             pathParts |-> Append(f.dir, f.stem)]))))

st2exp35_typeGUID(o) ==
    IF o.kind = "kindGVL" THEN tGVL ELSE IF o.kind = "kindDUT" THEN tDUT ELSE tPOU

\* The folder tree: folder path (sequence of names) -> [guid, objects]; the
\* synthetic root is the empty path.
Prefixes(parts) == { SubSeq(parts, 1, n) : n \in 0..Len(parts) }

\* ensurePath: create the missing folders of parts, outermost first; fresh
\* identifiers are taken from nextGuid upwards
\* ensurePath that makes a new node for every folder of parts, also for the
\* folders the tree already has
ensurePath_mutant(tree, parts, nextGuid) ==
    [q \in DOMAIN tree \cup Prefixes(parts) |->
        IF q \in Prefixes(parts) /\ Len(q) > 0
        THEN [guid |-> nextGuid + Len(q) - 1, objects |-> << >>]
        ELSE tree[q]]

ensurePath(tree, parts, nextGuid) ==
    With(SelectSeq([n \in 1..Len(parts) |-> SubSeq(parts, 1, n)],
                   LAMBDA q : q \notin DOMAIN tree),
         LAMBDA missing :
            [q \in DOMAIN tree \cup Prefixes(parts) |->
                IF q \in DOMAIN tree THEN tree[q]
                ELSE [guid |-> nextGuid + (CHOOSE k \in 1..Len(missing) : missing[k] = q) - 1,
                      objects |-> << >>]])

MissingFolders(tree, parts) == Cardinality(Prefixes(parts) \ DOMAIN tree)

\* byte order of the characters that occur in folder names
CharOrder == " -.0123456789ABCDEFGHIJKLMNOPQRSTUVWXYZ_abcdefghijklmnopqrstuvwxyz"

\* a < b for strings, as Go compares them
StrLess(a, b) ==
    With(SelectSeq(Indices(IF Len(a) < Len(b) THEN Len(a) ELSE Len(b)),
                   LAMBDA i : At(a, i) # At(b, i)),
         LAMBDA diff :
            IF Len(diff) = 0 THEN Len(a) < Len(b)
            ELSE Index(CharOrder, At(a, diff[1])) < Index(CharOrder, At(b, diff[1])))

\* sortedKeys of the children of folder q
SortedChildren(tree, q) ==
    With({ c \in DOMAIN tree : Len(c) = Len(q) + 1 /\ SubSeq(c, 1, Len(q)) = q },
         LAMBDA kids :
            [k \in 1..Cardinality(kids) |->
                CHOOSE c \in kids :
                    Cardinality({ d \in kids : StrLess(d[Len(d)], c[Len(c)]) }) = k - 1])

\* codeysFolderPath
codeysFolderPath(base, q) == base \o q

st2exp35_folderEntry(tree, q, svRootGUID, base) ==
    [IsRoot |-> Present("True"),
     MetaObject |-> Present(
        [Guid |-> tree[q].guid,
         ParentGuid |-> IF Len(q) > 1 THEN tree[SubSeq(q, 1, Len(q) - 1)].guid ELSE 0,
         Name |-> Present(xmlEscape(q[Len(q)])),
         TypeGuid |-> Present(tFolder)]),
     Object |-> Present([Interface |-> Absent, Implementation |-> Absent]),
     ParentSVNodeGuid |-> IF Len(q) > 1 THEN tree[SubSeq(q, 1, Len(q) - 1)].guid
                          ELSE svRootGUID,
     Path |-> Present([i \in 1..Len(codeysFolderPath(base, q)) |->
                          xmlEscape(codeysFolderPath(base, q)[i])])]

\* writeObjectEntry; q is the folder holding the object
st2exp35_objectEntry(tree, obj, q, svRootGUID, base) ==
    With2(IF Len(q) > 0 THEN tree[q].guid ELSE svRootGUID, base \o obj.pathParts,
         LAMBDA parentFolderGUID, codeyPath :
            [IsRoot |-> Present("False"),
             MetaObject |-> Present(
                [Guid |-> obj.guid,
                 ParentGuid |-> parentFolderGUID,
                 Name |-> Present(xmlEscape(obj.name)),
                 TypeGuid |-> Present(st2exp35_typeGUID(obj))]),
             Object |-> Present(
                [Interface |-> Present(xmlEscape(obj.decl)),
                 Implementation |-> IF obj.kind \in {"kindGVL", "kindDUT"} THEN Absent
                                    ELSE Present(xmlEscape(obj.impl))]),
             ParentSVNodeGuid |-> parentFolderGUID,
             Path |-> Present([i \in 1..Len(codeyPath) |-> xmlEscape(codeyPath[i])])])

\* walkFolders: the folder's own entry, the sub-folders in key order, the objects
RECURSIVE walkFolders(_, _, _, _)
walkFolders(tree, q, svRootGUID, base) ==
    (IF Len(q) > 0 THEN << st2exp35_folderEntry(tree, q, svRootGUID, base) >> ELSE << >>)
    \o With(SortedChildren(tree, q),
            LAMBDA kids :
               Flatten([k \in 1..Len(kids) |-> walkFolders(tree, kids[k], svRootGUID, base)]))
    \o [i \in 1..Len(tree[q].objects) |->
           st2exp35_objectEntry(tree, tree[q].objects[i], q, svRootGUID, base)]

\* ---------------------------------------------------------------------------
\* exp2st35: CoDeSys 3.5 export tree -> .st files
\* ---------------------------------------------------------------------------

\* parseEntry: << >> for the nil result, else << importedObj >>
exp2st35_parseEntry(entry) ==
    IF entry.MetaObject = Absent THEN Absent
    ELSE IF entry.MetaObject[1].Name = Absent THEN Absent
    ELSE Present(
            [name |-> exp2st35_text(entry.MetaObject[1].Name),
             typeGUID |-> exp2st35_text(entry.MetaObject[1].TypeGuid),
             path |-> IF entry.Path = Absent THEN << >>
                      ELSE [i \in 1..Len(entry.Path[1]) |->
                               exp2st35_text(Present(entry.Path[1][i]))],
             decl |-> IF entry.Object = Absent THEN ""
                      ELSE exp2st35_text(entry.Object[1].Interface),
             impl |-> IF entry.Object = Absent THEN ""
                      ELSE exp2st35_text(entry.Object[1].Implementation),
             isRoot |-> entry.IsRoot # Absent /\ EqualFold(exp2st35_text(entry.IsRoot), "true")])

exp2st35_isST(impl) ==
    IF TrimSpace(impl) = "" THEN FALSE
    ELSE IF HasPrefix(TrimSpace(impl), "<") THEN FALSE
    ELSE TRUE

IsPouHeader(u, kw) == HasPrefix(u, kw \o " ") \/ u = kw

\* pouEndKeyword that does not look at the declaration
exp2st35_pouEndKeyword_mutant(decl) == "END_PROGRAM"

\* pouEndKeyword: the first line of decl that is a POU header decides
exp2st35_pouEndKeyword(decl) ==
    With([i \in 1..Len(Split(decl, "\n")) |-> ToUpper(TrimSpace(Split(decl, "\n")[i]))],
         LAMBDA u :
    With(SelectSeq([i \in 1..Len(u) |-> i],
                   LAMBDA i : \/ IsPouHeader(u[i], "PROGRAM")
                              \/ IsPouHeader(u[i], "FUNCTION_BLOCK")
                              \/ IsPouHeader(u[i], "FUNCTION")),
         LAMBDA hits :
            IF Len(hits) = 0 THEN "END_PROGRAM"
            ELSE IF IsPouHeader(u[hits[1]], "PROGRAM") THEN "END_PROGRAM"
            ELSE IF IsPouHeader(u[hits[1]], "FUNCTION_BLOCK") THEN "END_FUNCTION_BLOCK"
            ELSE "END_FUNCTION"))

\* stubBody of exp2st35 reads strings.Fields(rest)[0] without a length check:
\* TRUE when some output variable has neither an initializer nor a type
RECURSIVE exp2st35_stubPanics(_, _)
exp2st35_stubPanics(lines, inOut) ==
    IF Len(lines) = 0 THEN FALSE
    ELSE
    With2(TrimSpace(lines[1]), ToUpper(TrimSpace(lines[1])),
         LAMBDA t, u :
            IF HasPrefix(u, "VAR_OUTPUT") \/ HasPrefix(u, "VAR_IN_OUT")
            THEN exp2st35_stubPanics(Tail(lines), TRUE)
            ELSE IF u = "END_VAR" THEN exp2st35_stubPanics(Tail(lines), FALSE)
            ELSE IF inOut /\ StubAssigns(t)
                    /\ Index(StubRest(t), ":=") < 0 /\ Len(Fields(StubRest(t))) = 0
            THEN TRUE
            ELSE exp2st35_stubPanics(Tail(lines), inOut))

\* the header dash of the source is U+2014; it is written "-" here
exp2st35_stubBody(decl) ==
    Join(StubLoop(Split(decl, "\n"), FALSE,
                  << "// ** GENERATED STUB - original implementation is non-ST (FBD/Ladder/SFC) **",
                     "// Adapt this body for your application logic.",
                     "" >>), "\n")

exp2st35_generateST(obj, strip) ==
    [content |->
        With3(TrimSpace(obj.decl), exp2st35_isST(obj.impl), exp2st35_pouEndKeyword(obj.decl),
             LAMBDA d, isST, endKW :
                IF obj.typeGUID = tDUT THEN TrimRight(obj.decl, "\n") \o "\n"
                ELSE IF obj.typeGUID = tGVL
                THEN IF HasPrefix(ToUpper(d), "CONFIGURATION") THEN d \o "\n"
                     ELSE "// trust-LSP wrapper - compiler extracts VAR_GLOBAL automatically\n"
                          \o "CONFIGURATION " \o obj.name \o "\n"
                          \o indentBlock(obj.decl, "    ")
                          \o "\nEND_CONFIGURATION\n"
                ELSE IF obj.typeGUID = tPOU
                THEN TrimRight(obj.decl, "\n")
                     \o (IF isST THEN ""
                         ELSE "\n// NOTE: Original implementation was non-ST (FBD/Ladder/SFC). Stub generated.")
                     \o "\n"
                     \o TrimRight(IF isST THEN obj.impl ELSE exp2st35_stubBody(obj.decl), "\n")
                     \o "\n" \o endKW \o "\n"
                ELSE "// Unknown TypeGuid: " \o obj.typeGUID \o "\n// Name: " \o obj.name
                     \o "\n" \o obj.decl \o "\n"),
     relPath |->
        PathJoin(Append(IF strip > 0 /\ Len(obj.path) > strip
                        THEN SubSeq(obj.path, strip + 1, Len(obj.path))
                        ELSE obj.path,
                        obj.name \o ".st"))]

exp2st35_kindLabel(typeGUID) ==
    CASE typeGUID = tGVL -> "GVL"
      [] typeGUID = tDUT -> "DUT"
      [] typeGUID = tPOU -> "POU"
      [] typeGUID = tFolder -> "folder"
      [] OTHER -> "unknown"

\* ---------------------------------------------------------------------------
\* st2plcopen: source parsing
\* ---------------------------------------------------------------------------

st2plcopen_detectKind(line) ==
    With(ToUpper(TrimSpace(line)),
         LAMBDA u :
            IF HasPrefix(u, "PROGRAM ") \/ u = "PROGRAM" THEN "kindProgram"
            ELSE IF HasPrefix(u, "FUNCTION_BLOCK ") \/ u = "FUNCTION_BLOCK"
            THEN "kindFunctionBlock"
            ELSE IF HasPrefix(u, "FUNCTION ") \/ u = "FUNCTION" THEN "kindFunction"
            ELSE IF HasPrefix(u, "VAR_GLOBAL") THEN "kindGVL"
            ELSE IF HasPrefix(u, "TYPE ") \/ u = "TYPE" THEN "kindDUT"
            ELSE IF HasPrefix(u, "CONFIGURATION ") \/ u = "CONFIGURATION"
            THEN "kindConfiguration"
            ELSE "kindProgram")

RECURSIVE st2plcopen_firstCodeLine(_)
st2plcopen_firstCodeLine(lines) ==
    IF Len(lines) = 0 THEN ""
    ELSE With(TrimSpace(lines[1]),
              LAMBDA t :
                 IF t = "" \/ HasPrefix(t, "//") \/ HasPrefix(t, "(*")
                    \/ HasPrefix(t, "{attribute") \/ HasPrefix(t, "{")
                 THEN st2plcopen_firstCodeLine(Tail(lines))
                 ELSE t)

simpleIECTypes ==
    { "BOOL", "BYTE", "WORD", "DWORD", "LWORD", "SINT", "INT", "DINT", "LINT",
      "USINT", "UINT", "UDINT", "ULINT", "REAL", "LREAL", "TIME", "DATE", "TOD", "DT",
      "TIME_OF_DAY", "DATE_AND_TIME", "WSTRING" }

\* parseArrayType: [lo, hi, baseType], all "" when the text is no array type
parseArrayType(typeName) ==
    With2(Index(ToUpper(typeName), "] OF "), Index(typeName, "["),
         LAMBDA ofIdx, bracketStart :
    With(Slice(typeName, bracketStart + 1, ofIdx),
         LAMBDA rangeStr :
    With(Index(rangeStr, ".."),
         LAMBDA dotIdx :
            IF ofIdx < 0 \/ bracketStart < 0 \/ dotIdx < 0
            THEN [lo |-> "", hi |-> "", baseType |-> ""]
            ELSE [lo |-> TrimSpace(Slice(rangeStr, 0, dotIdx)),
                  hi |-> TrimSpace(SliceFrom(rangeStr, dotIdx + 2)),
                  baseType |-> TrimSpace(SliceFrom(typeName, ofIdx + 5))])))

\* the first ":" of line that is not the start of ":=", or -1
ColonIdx(line) ==
    With(SelectSeq(Indices(Len(line)),
                   LAMBDA i : At(line, i) = ":"
                              /\ (i + 1 >= Len(line) \/ At(line, i + 1) # "=")),
         LAMBDA hits : IF Len(hits) = 0 THEN -1 ELSE hits[1])

\* parseVarDecl: << >> for nil, else << varInfo >>
parseVarDecl(line0) ==
    With(TrimSpace(line0),
         LAMBDA line1 :
            IF line1 = "" \/ HasPrefix(line1, "//") \/ HasPrefix(line1, "(*")
               \/ HasPrefix(line1, "{")
            THEN Absent
            ELSE
    With3(Index(line1, "//"), Index(line1, "(*"), Index(line1, "*)"),
         LAMBDA idx, idx2, endIdx :
    With2(TrimSpace(TrimSuffix(TrimSpace(
              IF idx > 0 THEN TrimSpace(Slice(line1, 0, idx))
              ELSE IF idx2 > 0 /\ endIdx > idx2 THEN TrimSpace(Slice(line1, 0, idx2))
              ELSE line1), ";")),
          IF idx > 0 THEN TrimSpace(SliceFrom(line1, idx + 2))
          ELSE IF idx2 > 0 /\ endIdx > idx2 THEN TrimSpace(Slice(line1, idx2 + 2, endIdx))
          ELSE "",
         LAMBDA line, comment :
    With(ColonIdx(line),
         LAMBDA colonIdx :
            IF colonIdx < 0 THEN Absent
            ELSE
    With2(TrimSpace(Slice(line, 0, colonIdx)), TrimSpace(SliceFrom(line, colonIdx + 1)),
         LAMBDA namePart, rest :
    With2(Index(ToUpper(namePart), " AT "), Index(rest, ":="),
         LAMBDA atIdx, initIdx :
            Present(
            [name |-> IF atIdx >= 0 THEN TrimSpace(Slice(namePart, 0, atIdx)) ELSE namePart,
             typeName |-> IF initIdx >= 0 THEN TrimSpace(Slice(rest, 0, initIdx)) ELSE rest,
             initVal |-> IF initIdx >= 0 THEN TrimSpace(SliceFrom(rest, initIdx + 2)) ELSE "",
             address |-> IF atIdx >= 0 THEN TrimSpace(SliceFrom(namePart, atIdx + 4)) ELSE "",
             comment |-> comment])))))))

\* the kind of block a line opens, "" when it opens none
VarBlockKind(upper) ==
    IF HasPrefix(upper, "VAR_INPUT") THEN "VAR_INPUT"
    ELSE IF HasPrefix(upper, "VAR_OUTPUT") THEN "VAR_OUTPUT"
    ELSE IF HasPrefix(upper, "VAR_IN_OUT") THEN "VAR_IN_OUT"
    ELSE IF HasPrefix(upper, "VAR_TEMP") THEN "VAR_TEMP"
    ELSE IF HasPrefix(upper, "VAR_GLOBAL") THEN "VAR_GLOBAL"
    ELSE IF upper = "VAR" \/ HasPrefix(upper, "VAR ") THEN "VAR"
    ELSE ""

\* the loop of parseVarBlocks; open says that current points at the last block
RECURSIVE parseVarBlocksLoop(_, _, _)
parseVarBlocksLoop(lines, blocks, open) ==
    IF Len(lines) = 0 THEN blocks
    ELSE
    With2(TrimSpace(lines[1]), ToUpper(TrimSpace(lines[1])),
         LAMBDA trimmed, upper :
    With2(VarBlockKind(upper), parseVarDecl(trimmed),
         LAMBDA kind, v :
            IF kind # "" /\ ~open
            THEN parseVarBlocksLoop(Tail(lines),
                     Append(blocks, [kind |-> kind, vars |-> << >>]), TRUE)
            ELSE IF open /\ upper = "END_VAR"
            THEN parseVarBlocksLoop(Tail(lines), blocks, FALSE)
            ELSE IF open /\ v # Absent
            THEN parseVarBlocksLoop(Tail(lines),
                     [blocks EXCEPT ![Len(blocks)].vars = Append(blocks[Len(blocks)].vars, v[1])],
                     open)
            ELSE parseVarBlocksLoop(Tail(lines), blocks, open)))

parseVarBlocks(declText) == parseVarBlocksLoop(Split(declText, "\n"), << >>, FALSE)

parseFunctionReturnType(firstLine) ==
    With(Index(firstLine, ":"),
         LAMBDA colonIdx :
            IF colonIdx < 0 THEN "" ELSE TrimSpace(SliceFrom(firstLine, colonIdx + 1)))

st2plcopen_splitDeclImpl(src) ==
    With(Split(src, "\n"),
         LAMBDA lines :
    With(LastEndVarUpper(lines, Len(lines)),
         LAMBDA lastEndVar :
            IF lastEndVar < 0 THEN [decl |-> src, impl |-> ""]
            ELSE [decl |-> Join(SubSeq(lines, 1, lastEndVar + 1), "\n"),
                  impl |-> Join(DropLeadingBlank(DropTrailingEnd(
                                    SubSeq(lines, lastEndVar + 2, Len(lines)))), "\n")]))

\* the loop of extractGVLFromConfiguration of st2plcopen
RECURSIVE st2plcopen_gvlLoop(_, _, _)
st2plcopen_gvlLoop(lines, inVarGlobal, out) ==
    IF Len(lines) = 0 THEN out
    ELSE
    With(ToUpper(TrimSpace(lines[1])),
         LAMBDA u :
    With(inVarGlobal \/ HasPrefix(u, "VAR_GLOBAL"),
         LAMBDA in1 :
            st2plcopen_gvlLoop(Tail(lines),
                               in1 /\ ~HasPrefix(u, "END_VAR"),
                               IF in1 THEN Append(out, DedentOne(lines[1])) ELSE out)))

st2plcopen_extractGVLFromConfiguration(lines) ==
    Join(st2plcopen_gvlLoop(lines, FALSE, << >>), "\n")

\* f is a source file [dir, stem, raw]; objectID is set by main
st2plcopen_convertFile(f) ==
    With(NormalizeNewlines(f.raw),
         LAMBDA src :
    With(Split(src, "\n"),
         LAMBDA lines :
    With(st2plcopen_detectKind(st2plcopen_firstCodeLine(lines)),
         LAMBDA kind :
    With(IF kind = "kindConfiguration"
         THEN [decl |-> st2plcopen_extractGVLFromConfiguration(lines), impl |-> ""]
         ELSE IF isPOUWithImpl(kind) THEN st2plcopen_splitDeclImpl(src)
         ELSE [decl |-> src, impl |-> ""],
         LAMBDA di :
            [name |-> f.stem,
             kind |-> IF kind = "kindConfiguration" THEN "kindGVL" ELSE kind,
             rawSource |-> src,
             decl |-> TrimRight(di.decl, "\n") \o "\n",
             impl |-> TrimRight(di.impl, "\n") \o "\n",
             pathParts |-> Append(f.dir, f.stem),
             objectID |-> 0]))))

\* ---------------------------------------------------------------------------
\* st2plcopen: data unit types
\* ---------------------------------------------------------------------------

\* one element of splitEnumLine: << >> when the name is empty
EnumValOf(p0) ==
    With(TrimSpace(p0),
         LAMBDA p1 :
    With(Index(p1, ":="),
         LAMBDA idx :
    With(IF idx >= 0
         THEN [name |-> TrimSpace(Slice(p1, 0, idx)), value |-> TrimSpace(SliceFrom(p1, idx + 2))]
         ELSE [name |-> p1, value |-> ""],
         LAMBDA ev : IF p1 = "" \/ ev.name = "" THEN << >> ELSE << ev >>)))

splitEnumLine(line) ==
    With(Split(line, ","),
         LAMBDA parts : Flatten([i \in 1..Len(parts) |-> EnumValOf(parts[i])]))

EnumDut(name, vals) ==
    [name |-> name, typeName |-> "ENUM", fields |-> << >>, enumVals |-> vals,
     rawDecl |-> "", objectID |-> 0]

StructDut(name, fields) ==
    [name |-> name, typeName |-> "STRUCT", fields |-> fields, enumVals |-> << >>,
     rawDecl |-> "", objectID |-> 0]

ClosesEnum(text) == HasSuffix(text, ");") \/ HasSuffix(text, ")")

\* the start of an enumeration whose text (after the name) is text
EnumStart(st, text) ==
    With(splitEnumLine(TrimSuffix(TrimSuffix(TrimPrefix(text, "("), ")"), ");")),
         LAMBDA vals :
            IF ClosesEnum(text)
            THEN [st EXCEPT !.inEnum = FALSE, !.enumVals = vals, !.currentName = "",
                            !.duts = Append(st.duts, EnumDut(st.currentName, vals))]
            ELSE [st EXCEPT !.inEnum = TRUE, !.enumVals = vals])

\* the part of one iteration of parseSingleTypeBlock after the name matching
TypeBlockTail(st, trimmed, upper) ==
    IF st.currentName # "" /\ ~st.inStruct /\ ~st.inEnum /\ HasPrefix(trimmed, "(")
    THEN EnumStart(st, trimmed)
    ELSE IF st.inEnum
    THEN With(TrimSpace(TrimSuffix(TrimSuffix(trimmed, ");"), ")")),
              LAMBDA line :
         With(IF line # "" THEN st.enumVals \o splitEnumLine(line) ELSE st.enumVals,
              LAMBDA vals :
                 IF ClosesEnum(trimmed)
                 THEN [st EXCEPT !.inEnum = FALSE, !.enumVals = vals, !.currentName = "",
                                 !.duts = Append(st.duts, EnumDut(st.currentName, vals))]
                 ELSE [st EXCEPT !.enumVals = vals]))
    ELSE IF st.inStruct
    THEN IF HasPrefix(upper, "END_STRUCT")
         THEN [st EXCEPT !.inStruct = FALSE, !.currentName = "",
                         !.duts = Append(st.duts, StructDut(st.currentName, st.fields))]
         ELSE With(parseVarDecl(trimmed),
                   LAMBDA v :
                      IF v # Absent THEN [st EXCEPT !.fields = Append(st.fields, v[1])]
                      ELSE st)
    ELSE st

\* one iteration of the loop of parseSingleTypeBlock
TypeBlockStep(st, line) ==
    With(TrimSpace(line),
         LAMBDA trimmed :
    With2(ToUpper(trimmed), Index(trimmed, ":"),
         LAMBDA upper, colon :
    With2(TrimSpace(Slice(trimmed, 0, colon)), TrimSpace(SliceFrom(trimmed, colon + 1)),
         LAMBDA name0, rest :
    With(IF ToUpper(name0) = "TYPE" \/ name0 = "" THEN "" ELSE name0,
         LAMBDA name1 :
    With(IF HasPrefix(ToUpper(name1), "TYPE ") THEN TrimSpace(SliceFrom(name1, 5)) ELSE name1,
         LAMBDA name :
    With([st EXCEPT !.currentName = name],
         LAMBDA named :
            IF st.currentName # "" /\ ~st.inStruct /\ ~st.inEnum
               /\ upper \in {"STRUCT", "STRUCT;"}
            THEN [st EXCEPT !.inStruct = TRUE, !.fields = << >>]
            ELSE IF ~st.inStruct /\ ~st.inEnum /\ colon >= 0
            THEN IF name = "" THEN st
                 ELSE IF HasPrefix(ToUpper(rest), "STRUCT")
                 THEN [named EXCEPT !.inStruct = TRUE, !.fields = << >>]
                 ELSE IF HasPrefix(rest, "(") THEN EnumStart(named, rest)
                 ELSE TypeBlockTail(named, trimmed, upper)
            ELSE TypeBlockTail(st, trimmed, upper)))))))

RECURSIVE TypeBlockLoop(_, _)
TypeBlockLoop(st, lines) ==
    IF Len(lines) = 0 THEN st ELSE TypeBlockLoop(TypeBlockStep(st, lines[1]), Tail(lines))

parseSingleTypeBlock(lines) ==
    TypeBlockLoop([currentName |-> "", inStruct |-> FALSE, inEnum |-> FALSE,
                   fields |-> << >>, enumVals |-> << >>, duts |-> << >>], lines).duts

IsTypeLine(l) ==
    With(ToUpper(TrimSpace(l)), LAMBDA u : HasPrefix(u, "TYPE ") \/ u = "TYPE")

\* parseDUTs: every TYPE ... END_TYPE span is parsed on its own; the rawDecl the
\* source assigns inside its range loop lands on a copy and is lost
RECURSIVE parseDUTsFrom(_, _)
parseDUTsFrom(lines, i) ==
    IF i > Len(lines) THEN << >>
    ELSE IF ~IsTypeLine(lines[i]) THEN parseDUTsFrom(lines, i + 1)
    ELSE
    With(SelectSeq([j \in 1..Len(lines) |-> j],
                   LAMBDA j : j > i /\ ToUpper(TrimSpace(lines[j])) = "END_TYPE"),
         LAMBDA ends :
    With(IF Len(ends) = 0 THEN Len(lines) ELSE ends[1],
         LAMBDA stop :
            parseSingleTypeBlock(SubSeq(lines, i, stop)) \o parseDUTsFrom(lines, stop + 1)))

parseDUTs(src) == parseDUTsFrom(Split(src, "\n"), 1)

\* ---------------------------------------------------------------------------
\* st2plcopen: the XML it writes.  An element is [tag, attrs, text, kids, form]:
\* attrs and text hold what is written between the quotes and the tags (after
\* xmlEscape); form is "empty" for <t />, "text" for <t>text</t> on one line
\* and "nest" for an opening line, the children and a closing line.
\* ---------------------------------------------------------------------------

Attr(name, value) == [name |-> name, value |-> value]

Nest(tag, attrs, kids) ==
    [tag |-> tag, attrs |-> attrs, text |-> "", kids |-> kids, form |-> "nest"]

EmptyEl(tag, attrs) ==
    [tag |-> tag, attrs |-> attrs, text |-> "", kids |-> << >>, form |-> "empty"]

TextEl(tag, attrs, text) ==
    [tag |-> tag, attrs |-> attrs, text |-> text, kids |-> << >>, form |-> "text"]

\* writeTypeXML
RECURSIVE writeTypeXML(_)
writeTypeXML(typeName) ==
    With2(ToUpper(TrimSpace(typeName)), parseArrayType(typeName),
         LAMBDA upper, arr :
            IF upper \in simpleIECTypes THEN EmptyEl(upper, << >>)
            ELSE IF upper = "STRING" THEN EmptyEl("string", << >>)
            ELSE IF HasPrefix(upper, "STRING(")
            THEN EmptyEl("string",
                         << Attr("length", TrimSuffix(TrimPrefix(upper, "STRING("), ")")) >>)
            ELSE IF HasPrefix(upper, "WSTRING(")
            THEN EmptyEl("wstring",
                         << Attr("length", TrimSuffix(TrimPrefix(upper, "WSTRING("), ")")) >>)
            ELSE IF HasPrefix(upper, "ARRAY") /\ arr.baseType # ""
            THEN Nest("array", << >>,
                      << EmptyEl("dimension", << Attr("lower", arr.lo), Attr("upper", arr.hi) >>),
                         Nest("baseType", << >>, << writeTypeXML(arr.baseType) >>) >>)
            ELSE EmptyEl("derived", << Attr("name", xmlEscape(TrimSpace(typeName))) >>))

writeXHTMLContent(text) ==
    TextEl("xhtml", << Attr("xmlns", "http://www.w3.org/1999/xhtml") >>, xmlEscape(text))

writeVariable(v) ==
    Nest("variable",
         IF v.address # ""
         THEN << Attr("name", xmlEscape(v.name)), Attr("address", xmlEscape(v.address)) >>
         ELSE << Attr("name", xmlEscape(v.name)) >>,
         << Nest("type", << >>, << writeTypeXML(v.typeName) >>) >>
         \o (IF v.initVal # ""
             THEN << Nest("initialValue", << >>,
                          << EmptyEl("simpleValue", << Attr("value", xmlEscape(v.initVal)) >>) >>) >>
             ELSE << >>)
         \o (IF v.comment # ""
             THEN << Nest("documentation", << >>, << writeXHTMLContent(v.comment) >>) >>
             ELSE << >>))

\* writeVarList: nothing at all for a block without variables
writeVarList(tag, vars) ==
    IF Len(vars) = 0 THEN << >>
    ELSE << Nest(tag, << >>, [i \in 1..Len(vars) |-> writeVariable(vars[i])]) >>

\* object identifiers are numbers in the model; GuidText is their written form
GuidText(g) == "guid-" \o ToString(g)

writeObjectIdAddData(objectID) ==
    Nest("addData", << >>,
         << Nest("data", << Attr("name", "http://www.3s-software.com/plcopenxml/objectid"),
                            Attr("handleUnknown", "discard") >>,
                 << TextEl("ObjectId", << >>, GuidText(objectID)) >>) >>)

VarListTag(kind) ==
    CASE kind = "VAR_INPUT" -> "inputVars"
      [] kind = "VAR_OUTPUT" -> "outputVars"
      [] kind = "VAR_IN_OUT" -> "inOutVars"
      [] kind = "VAR" -> "localVars"
      [] kind = "VAR_TEMP" -> "tempVars"
      [] OTHER -> ""

writePOU(obj) ==
    With2(parseFunctionReturnType(Split(obj.decl, "\n")[1]), parseVarBlocks(obj.decl),
         LAMBDA retType, blocks :
            Nest("pou",
                 << Attr("name", xmlEscape(obj.name)),
                    Attr("pouType", IF obj.kind = "kindFunctionBlock" THEN "functionBlock"
                                    ELSE IF obj.kind = "kindFunction" THEN "function"
                                    ELSE "program") >>,
                 << Nest("interface", << >>,
                         (IF obj.kind = "kindFunction" /\ retType # ""
                          THEN << Nest("returnType", << >>, << writeTypeXML(retType) >>) >>
                          ELSE << >>)
                         \o Flatten([i \in 1..Len(blocks) |->
                                IF VarListTag(blocks[i].kind) = "" THEN << >>
                                ELSE writeVarList(VarListTag(blocks[i].kind), blocks[i].vars)])),
                    Nest("body", << >>, << Nest("ST", << >>, << writeXHTMLContent(obj.impl) >>) >>),
                    writeObjectIdAddData(obj.objectID) >>))

writeDataType(d) ==
    Nest("dataType", << Attr("name", xmlEscape(d.name)) >>,
         (IF d.typeName = "STRUCT"
          THEN << Nest("baseType", << >>,
                       << Nest("struct", << >>,
                               [i \in 1..Len(d.fields) |-> writeVariable(d.fields[i])]) >>) >>
          ELSE IF d.typeName = "ENUM"
          THEN << Nest("baseType", << >>,
                       << Nest("enum", << >>,
                               << Nest("values", << >>,
                                       [i \in 1..Len(d.enumVals) |->
                                           IF d.enumVals[i].value # ""
                                           THEN EmptyEl("value",
                                                    << Attr("name", xmlEscape(d.enumVals[i].name)),
                                                       Attr("value", xmlEscape(d.enumVals[i].value)) >>)
                                           ELSE EmptyEl("value",
                                                    << Attr("name", xmlEscape(d.enumVals[i].name)) >>)])
                               >>) >>) >>
          ELSE << >>)
         \o << writeObjectIdAddData(d.objectID) >>)

writeGlobalVarsAddData(obj) ==
    Nest("data", << Attr("name", "http://www.3s-software.com/plcopenxml/globalvars"),
                    Attr("handleUnknown", "implementation") >>,
         << Nest("globalVars", << Attr("name", xmlEscape(obj.name)) >>,
                 With(parseVarBlocks(obj.decl),
                      LAMBDA blocks :
                         Flatten([i \in 1..Len(blocks) |->
                            IF blocks[i].kind = "VAR_GLOBAL"
                            THEN [j \in 1..Len(blocks[i].vars) |->
                                     writeVariable(blocks[i].vars[j])]
                            ELSE << >>]))
                 \o << writeObjectIdAddData(obj.objectID) >>) >>)

\* ---------------------------------------------------------------------------
\* st2plcopen: project structure, document and output bytes
\* ---------------------------------------------------------------------------

\* ensureProjPath: the folder map with the missing folders of parts added
ensureProjPath(tree, parts) ==
    [q \in DOMAIN tree \cup Prefixes(parts) |->
        IF q \in DOMAIN tree THEN tree[q] ELSE << >>]

\* writeProjStructure for folder q: the sub-folders in key order, then the objects
RECURSIVE writeProjStructure(_, _)
writeProjStructure(tree, q) ==
    With(SortedChildren(tree, q),
         LAMBDA kids :
            [k \in 1..Len(kids) |->
                Nest("Folder", << Attr("Name", xmlEscape(kids[k][Len(kids[k])])) >>,
                     writeProjStructure(tree, kids[k]))])
    \o [i \in 1..Len(tree[q]) |->
           EmptyEl("Object", << Attr("Name", xmlEscape(tree[q][i].name)),
                                Attr("ObjectId", GuidText(tree[q][i].objectID)) >>)]

\* values of the -name and -company flags (their defaults) and of nowISO()
OutName == "plcopen_export"

Company == "iec-st-tools"

Timestamp == "2026-01-01T00:00:00.0000000"

\* main, "Parse DUTs into structured form": identifiers from nextGuid upwards
st2plcopen_allDUTs(dutSources, nextGuid) ==
    With(Flatten([i \in 1..Len(dutSources) |->
            With(parseDUTs(dutSources[i].rawSource),
                 LAMBDA duts :
                    [j \in 1..Len(duts) |->
                        [duts[j] EXCEPT !.rawDecl = dutSources[i].rawSource]])]),
         LAMBDA all : [k \in 1..Len(all) |-> [all[k] EXCEPT !.objectID = nextGuid + k - 1]])

\* main, "Write output": the project element
st2plcopen_project(pous, gvls, allDUTs, projRoot) ==
    Nest("project", << Attr("xmlns", "http://www.plcopen.org/xml/tc6_0200") >>,
      << EmptyEl("fileHeader",
                 << Attr("companyName", xmlEscape(Company)), Attr("productName", "CODESYS"),
                    Attr("productVersion", "CODESYS V3.5 SP19 Patch 6"),
                    Attr("creationDateTime", Timestamp) >>),
         Nest("contentHeader",
              << Attr("name", xmlEscape(OutName) \o ".project"),
                 Attr("modificationDateTime", Timestamp) >>,
              << Nest("coordinateInfo", << >>,
                   << Nest("fbd", << >>, << EmptyEl("scaling", << Attr("x", "1"), Attr("y", "1") >>) >>),
                      Nest("ld", << >>, << EmptyEl("scaling", << Attr("x", "1"), Attr("y", "1") >>) >>),
                      Nest("sfc", << >>, << EmptyEl("scaling", << Attr("x", "1"), Attr("y", "1") >>) >>) >>),
                 Nest("addData", << >>,
                   << Nest("data",
                           << Attr("name", "http://www.3s-software.com/plcopenxml/projectinformation"),
                              Attr("handleUnknown", "implementation") >>,
                           << EmptyEl("ProjectInformation", << >>) >>) >>) >>),
         Nest("types", << >>,
              << IF Len(allDUTs) > 0
                 THEN Nest("dataTypes", << >>, [i \in 1..Len(allDUTs) |-> writeDataType(allDUTs[i])])
                 ELSE EmptyEl("dataTypes", << >>),
                 IF Len(pous) > 0
                 THEN Nest("pous", << >>, [i \in 1..Len(pous) |-> writePOU(pous[i])])
                 ELSE EmptyEl("pous", << >>) >>),
         Nest("instances", << >>, << EmptyEl("configurations", << >>) >>),
         Nest("addData", << >>,
              [i \in 1..Len(gvls) |-> writeGlobalVarsAddData(gvls[i])]
              \o << Nest("data",
                         << Attr("name", "http://www.3s-software.com/plcopenxml/projectstructure"),
                            Attr("handleUnknown", "discard") >>,
                         << Nest("ProjectStructure", << >>,
                                 writeProjStructure(projRoot, << >>)) >>) >>) >>)

\* the attributes as the format strings write them
RenderAttrs(attrs) ==
    Join([i \in 1..Len(attrs) |-> " " \o attrs[i].name \o "=\"" \o attrs[i].value \o "\""], "")

\* the arguments of the Fprintf calls that write element n at the given indent, in order
RECURSIVE Chunks(_, _)
Chunks(n, indent) ==
    IF n.form = "empty"
    THEN << indent \o "<" \o n.tag \o RenderAttrs(n.attrs) \o " />\n" >>
    ELSE IF n.form = "text"
    THEN << indent \o "<" \o n.tag \o RenderAttrs(n.attrs) \o ">" \o n.text
            \o "</" \o n.tag \o ">\n" >>
    ELSE << indent \o "<" \o n.tag \o RenderAttrs(n.attrs) \o ">\n" >>
         \o Flatten([i \in 1..Len(n.kids) |-> Chunks(n.kids[i], indent \o "  ")])
         \o << indent \o "</" \o n.tag \o ">\n" >>

\* a writer that passes every byte on unchanged
crlfWriter_Write_mutant(p) == p

\* crlfWriter.Write: every byte is passed on, "\n" as "\r\n"
crlfWriter_Write(p) == ReplaceAll(p, "\n", "\r\n")

\* the bytes of the output file: every Fprintf goes through the crlfWriter
st2plcopen_output(project) ==
    With(<< "<?xml version=\"1.0\" encoding=\"utf-8\"?>\n" >> \o Chunks(project, ""),
         LAMBDA chunks : Join([i \in 1..Len(chunks) |-> crlfWriter_Write(chunks[i])], ""))

\* ---------------------------------------------------------------------------
\* plcopen2st: the generic node tree.  xml.Unmarshal decodes the entities of
\* attribute values and character data and turns CRLF into LF.
\* ---------------------------------------------------------------------------

\* xmlNode.attr
attr(n, name) ==
    With(SelectSeq(n.attrs, LAMBDA a : a.name = name),
         LAMBDA hits : IF Len(hits) = 0 THEN "" ELSE xmlUnescape(hits[1].value))

allChildren(n, localName) == SelectSeq(n.kids, LAMBDA c : c.tag = localName)

\* xmlNode.child: << >> for nil, else << node >>
child(n, localName) ==
    With(allChildren(n, localName),
         LAMBDA cs : IF Len(cs) = 0 THEN Absent ELSE Present(cs[1]))

\* xmlNode.textDeep
RECURSIVE textDeep(_)
textDeep(n) ==
    xmlUnescape(n.text) \o Join([i \in 1..Len(n.kids) |-> textDeep(n.kids[i])], "")

\* child(tag1).child(tag2) with the nil checks of the source
child2(n, tag1, tag2) ==
    IF child(n, tag1) = Absent THEN Absent ELSE child(child(n, tag1)[1], tag2)

extractInterfaceAsPlainText(node) ==
    With(child(node, "addData"),
         LAMBDA addData :
    With(SelectSeq(IF addData = Absent THEN << >> ELSE allChildren(addData[1], "data"),
                   LAMBDA d : /\ Contains(attr(d, "name"), "interfaceasplaintext")
                              /\ child2(d, "InterfaceAsPlainText", "xhtml") # Absent),
         LAMBDA hits :
            IF Len(hits) = 0 THEN ""
            ELSE TrimSpace(textDeep(child2(hits[1], "InterfaceAsPlainText", "xhtml")[1]))))

RECURSIVE extractTypeName(_)
extractTypeName(typeNode) ==
    With(SelectSeq(typeNode.kids,
                   LAMBDA c : ToUpper(c.tag) \in simpleIECTypes
                                  \cup {"STRING", "DERIVED", "ARRAY", "STRUCT", "ENUM"}),
         LAMBDA hits :
            IF Len(hits) = 0 THEN "BOOL"
            ELSE
    With2(hits[1], ToUpper(hits[1].tag),
         LAMBDA c, tag :
            IF tag \in simpleIECTypes THEN tag
            ELSE IF tag = "STRING"
            THEN IF attr(c, "length") # "" THEN "STRING(" \o attr(c, "length") \o ")"
                 ELSE "STRING"
            ELSE IF tag = "DERIVED" THEN attr(c, "name")
            ELSE IF tag = "ARRAY"
            THEN With2(child(c, "dimension"), child(c, "baseType"),
                      LAMBDA dim, baseType :
                         IF dim # Absent /\ baseType # Absent
                         THEN "ARRAY[" \o attr(dim[1], "lower") \o ".."
                              \o attr(dim[1], "upper") \o "] OF "
                              \o extractTypeName(baseType[1])
                         ELSE "ARRAY")
            ELSE tag))

\* typeName and initVal of a variable element, as the three reconstructions read them
VarTypeName(v) ==
    IF child(v, "type") = Absent THEN "BOOL" ELSE extractTypeName(child(v, "type")[1])

VarInitVal(v) ==
    With(child2(v, "initialValue", "simpleValue"),
         LAMBDA sv : IF sv = Absent THEN "" ELSE attr(sv[1], "value"))

\* one declaration line of reconstructDeclaration
DeclLine(v) ==
    With2(attr(v, "address"), child2(v, "documentation", "xhtml"),
         LAMBDA addr, xhtml :
    With2(VarInitVal(v), IF xhtml = Absent THEN "" ELSE TrimSpace(textDeep(xhtml[1])),
         LAMBDA initVal, comment :
            "    "
            \o (IF addr # "" THEN attr(v, "name") \o " AT " \o addr \o " : " \o VarTypeName(v)
                ELSE attr(v, "name") \o " : " \o VarTypeName(v))
            \o (IF initVal # "" THEN " := " \o initVal ELSE "")
            \o ";"
            \o (IF comment # "" THEN " // " \o comment ELSE "")))

varSections ==
    << [tag |-> "inputVars", kw |-> "VAR_INPUT"], [tag |-> "outputVars", kw |-> "VAR_OUTPUT"],
       [tag |-> "inOutVars", kw |-> "VAR_IN_OUT"], [tag |-> "localVars", kw |-> "VAR"],
       [tag |-> "tempVars", kw |-> "VAR_TEMP"] >>

\* the text reconstructDeclaration writes for one section: only the first list
\* of the tag is read
SectionText(iface, sec) ==
    With(child(iface, sec.tag),
         LAMBDA varList :
    With(IF varList = Absent THEN << >> ELSE allChildren(varList[1], "variable"),
         LAMBDA vars :
            IF Len(vars) = 0 THEN ""
            ELSE sec.kw \o "\n"
                 \o Join([i \in 1..Len(vars) |-> DeclLine(vars[i]) \o "\n"], "")
                 \o "END_VAR\n"))

reconstructDeclaration(pouNode) ==
    With3(attr(pouNode, "pouType"), attr(pouNode, "name"), child(pouNode, "interface"),
         LAMBDA pouType, pouName, iface :
            IF iface = Absent THEN ""
            ELSE (IF pouType = "function"
                  THEN With(child(iface[1], "returnType"),
                            LAMBDA retType :
                               "FUNCTION " \o pouName \o " : "
                               \o (IF retType # Absent THEN extractTypeName(retType[1])
                                   ELSE "BOOL")
                               \o "\n")
                  ELSE IF pouType = "functionBlock" THEN "FUNCTION_BLOCK " \o pouName \o "\n"
                  ELSE IF pouType = "program" THEN "PROGRAM " \o pouName \o "\n"
                  ELSE "")
                 \o Join([i \in 1..Len(varSections) |->
                             SectionText(iface[1], varSections[i])], ""))

\* extractBodyText: [text, type]
extractBodyText(bodyNode) ==
    With2(child(bodyNode, "ST"),
          SelectSeq(<< "FBD", "LD", "SFC", "IL" >>, LAMBDA t : child(bodyNode, t) # Absent),
         LAMBDA stNode, others :
            IF stNode # Absent
            THEN With(child(stNode[1], "xhtml"),
                      LAMBDA xhtml :
                         IF xhtml # Absent
                         THEN [text |-> TrimSpace(textDeep(xhtml[1])), type |-> "ST"]
                         ELSE [text |-> "", type |-> "ST"])
            ELSE IF Len(others) > 0 THEN [text |-> "", type |-> others[1]]
            ELSE [text |-> "", type |-> ""])

\* "    name : type [:= init];" of reconstructDUT and reconstructGVL
PlainLine(v) ==
    "    " \o attr(v, "name") \o " : " \o VarTypeName(v)
    \o With(VarInitVal(v), LAMBDA initVal : IF initVal # "" THEN " := " \o initVal ELSE "")
    \o ";"

EnumLine(vals, i) ==
    With(child(vals[i], "simpleValue"),
         LAMBDA sv :
    With(IF sv = Absent THEN "" ELSE attr(sv[1], "value"),
         LAMBDA eVal :
            "    " \o attr(vals[i], "name") \o (IF eVal # "" THEN " := " \o eVal ELSE "")
            \o (IF i < Len(vals) THEN "," ELSE "")))

reconstructDUT(dtNode) ==
    With3(attr(dtNode, "name"), extractInterfaceAsPlainText(dtNode), child(dtNode, "baseType"),
         LAMBDA name, ipt, baseType :
            IF name = "" THEN ""
            ELSE IF ipt # "" THEN ipt
            ELSE IF baseType = Absent
            THEN "TYPE " \o name \o " :\n    // Unknown type\nEND_TYPE\n"
            ELSE
    With2(child(baseType[1], "struct"), child(baseType[1], "enum"),
         LAMBDA structNode, enumNode :
            IF structNode # Absent
            THEN With(allChildren(structNode[1], "variable"),
                      LAMBDA fields :
                         "TYPE " \o name \o " :\nSTRUCT\n"
                         \o Join([i \in 1..Len(fields) |-> PlainLine(fields[i]) \o "\n"], "")
                         \o "END_STRUCT\nEND_TYPE\n")
            ELSE IF enumNode # Absent
            THEN With(child(enumNode[1], "values"),
                      LAMBDA valuesNode :
                 With(IF valuesNode = Absent THEN << >>
                      ELSE allChildren(valuesNode[1], "value"),
                      LAMBDA vals :
                         "TYPE " \o name \o " :\n(\n"
                         \o Join([i \in 1..Len(vals) |-> EnumLine(vals, i) \o "\n"], "")
                         \o ");\nEND_TYPE\n"))
            ELSE "TYPE " \o name \o " :\n    // Unsupported base type structure\nEND_TYPE\n"))

reconstructGVL(gvlNode) ==
    With2(extractInterfaceAsPlainText(gvlNode), allChildren(gvlNode, "variable"),
         LAMBDA ipt, vars :
            IF ipt # "" THEN ipt
            ELSE "VAR_GLOBAL\n"
                 \o Join([i \in 1..Len(vars) |-> PlainLine(vars[i]) \o "\n"], "")
                 \o "END_VAR\n")

plcopen2st_pouEndKeyword(pouType) ==
    IF pouType = "function" THEN "END_FUNCTION"
    ELSE IF pouType = "functionBlock" THEN "END_FUNCTION_BLOCK"
    ELSE "END_PROGRAM"

\* the header dash of the source is U+2014; it is written "-" here
plcopen2st_stubBody(decl) ==
    Join(StubLoop(Split(decl, "\n"), FALSE,
                  << "// ** GENERATED STUB - original implementation is non-ST (FBD/Ladder/SFC) **",
                     "// Adapt this body for your application logic.",
                     "" >>), "\n")

generatePOUST(pou) ==
    With2(plcopen2st_pouEndKeyword(pou.pouType), pou.bodyType # "ST" \/ pou.bodyText = "",
         LAMBDA endKW, stub :
    With3(IF stub /\ pou.bodyType # "ST" /\ pou.bodyType # ""
          THEN "\n// NOTE: Original implementation was non-ST (" \o pou.bodyType
               \o "). Stub generated."
          ELSE "",
          TrimRight(pou.declText, "\n"),
          TrimRight(IF stub THEN plcopen2st_stubBody(pou.declText) ELSE pou.bodyText, "\n"),
         LAMBDA stubNote, decl, body :
            IF body = "" THEN decl \o stubNote \o "\n" \o endKW \o "\n"
            ELSE decl \o stubNote \o "\n" \o body \o "\n" \o endKW \o "\n"))

generateGVLST(gvl) ==
    With(TrimSpace(gvl.declText),
         LAMBDA d :
            IF HasPrefix(ToUpper(d), "CONFIGURATION") THEN d \o "\n"
            ELSE "// trust-LSP wrapper - compiler extracts VAR_GLOBAL automatically\nCONFIGURATION "
                 \o gvl.name \o "\n" \o indentBlock(gvl.declText, "    ")
                 \o "\nEND_CONFIGURATION\n")

generateDUTST(dut) == TrimRight(dut.declText, "\n") \o "\n"

\* ---------------------------------------------------------------------------
\* plcopen2st: what main collects from the document
\* ---------------------------------------------------------------------------

\* walkProjectStructure: the assignments folders[name] = prefix, in order
RECURSIVE walkProjectStructure(_, _)
walkProjectStructure(node, prefix) ==
    Flatten([i \in 1..Len(node.kids) |->
        With2(node.kids[i], attr(node.kids[i], "Name"),
             LAMBDA c, name :
                IF c.tag = "Folder"
                THEN walkProjectStructure(c, IF prefix # "" THEN prefix \o "/" \o name
                                             ELSE name)
                ELSE IF c.tag = "Object" THEN << [name |-> name, folder |-> prefix] >>
                ELSE << >>)])

\* extractProjectFolders, as the sequence of map assignments
extractProjectFolders(root) ==
    With(child(root, "addData"),
         LAMBDA addData :
    With(IF addData = Absent THEN << >> ELSE allChildren(addData[1], "data"),
         LAMBDA datas :
            Flatten([i \in 1..Len(datas) |->
                IF Contains(attr(datas[i], "name"), "projectstructure")
                   /\ child(datas[i], "ProjectStructure") # Absent
                THEN walkProjectStructure(child(datas[i], "ProjectStructure")[1], "")
                ELSE << >>])))

\* projFolders[name]: the last assignment wins, "" for a missing key
FolderOf(projFolders, name) ==
    With(SelectSeq(projFolders, LAMBDA e : e.name = name),
         LAMBDA hits : IF Len(hits) = 0 THEN "" ELSE hits[Len(hits)].folder)

\* extractPOU that always falls back to the structured interface
extractPOU_mutant(pouNode, projFolders) ==
    With2(attr(pouNode, "name"), child(pouNode, "body"),
         LAMBDA name, bodyNode :
    With(IF bodyNode = Absent THEN [text |-> "", type |-> ""]
         ELSE extractBodyText(bodyNode[1]),
         LAMBDA body :
            [name |-> name,
             pouType |-> attr(pouNode, "pouType"),
             declText |-> reconstructDeclaration(pouNode),
             bodyText |-> body.text,
             bodyType |-> body.type,
             folder |-> FolderOf(projFolders, name)]))

extractPOU(pouNode, projFolders) ==
    With3(attr(pouNode, "name"), extractInterfaceAsPlainText(pouNode), child(pouNode, "body"),
         LAMBDA name, ipt, bodyNode :
    With(IF bodyNode = Absent THEN [text |-> "", type |-> ""]
         ELSE extractBodyText(bodyNode[1]),
         LAMBDA body :
            [name |-> name,
             pouType |-> attr(pouNode, "pouType"),
             declText |-> IF ipt = "" THEN reconstructDeclaration(pouNode) ELSE ipt,
             bodyText |-> body.text,
             bodyType |-> body.type,
             folder |-> FolderOf(projFolders, name)]))

\* append the pou elements of nodes that are not yet in allPOUs by name
RECURSIVE AddNewPOUs(_, _, _)
AddNewPOUs(pouNodes, projFolders, allPOUs) ==
    IF Len(pouNodes) = 0 THEN allPOUs
    ELSE AddNewPOUs(Tail(pouNodes), projFolders,
            IF \E k \in 1..Len(allPOUs) : allPOUs[k].name = attr(Head(pouNodes), "name")
            THEN allPOUs
            ELSE Append(allPOUs, extractPOU(Head(pouNodes), projFolders)))

RECURSIVE extractAddDataPOUs(_, _, _)

\* the loop of extractAddDataPOUs over the data elements of addData
RECURSIVE AddDataLoop(_, _, _)
AddDataLoop(datas, projFolders, allPOUs) ==
    IF Len(datas) = 0 THEN allPOUs
    ELSE AddDataLoop(Tail(datas), projFolders,
            With2(child(datas[1], "resource"),
                  AddNewPOUs(allChildren(datas[1], "pou"), projFolders, allPOUs),
                 LAMBDA res, acc :
                    IF res = Absent THEN acc
                    ELSE extractAddDataPOUs(res[1], projFolders, acc)))

\* the loop of extractAddDataPOUs over the configuration and resource children
RECURSIVE NestedLoop(_, _, _)
NestedLoop(nested, projFolders, allPOUs) ==
    IF Len(nested) = 0 THEN allPOUs
    ELSE NestedLoop(Tail(nested), projFolders,
                    extractAddDataPOUs(nested[1], projFolders, allPOUs))

extractAddDataPOUs(node, projFolders, allPOUs) ==
    NestedLoop(SelectSeq(node.kids, LAMBDA c : c.tag \in {"configuration", "resource"}),
               projFolders,
               AddDataLoop(With(child(node, "addData"),
                                LAMBDA addData : IF addData = Absent THEN << >>
                                                 ELSE allChildren(addData[1], "data")),
                           projFolders, allPOUs))

RECURSIVE extractGVLsRecursive(_)
extractGVLsRecursive(node) ==
    Flatten([i \in 1..Len(node.kids) |->
        With(node.kids[i],
             LAMBDA c :
                IF c.tag = "globalVars"
                THEN << [name |-> IF attr(c, "name") = "" THEN "GlobalVars"
                                  ELSE attr(c, "name"),
                         declText |-> reconstructGVL(c)] >>
                ELSE IF c.tag \in {"configuration", "resource"} THEN extractGVLsRecursive(c)
                ELSE << >>)])

\* the children of that name of a node that may be nil
ChildrenOf(parent, localName) ==
    IF parent = Absent THEN << >> ELSE allChildren(parent[1], localName)

\* main up to "Write output files": the units in the order they are written
plcopen2st_collect(root) ==
    With(extractProjectFolders(root),
         LAMBDA projFolders :
    With3(extractAddDataPOUs(root, projFolders,
              With(ChildrenOf(child2(root, "types", "pous"), "pou"),
                   LAMBDA pouNodes :
                      [i \in 1..Len(pouNodes) |-> extractPOU(pouNodes[i], projFolders)])),
          With(ChildrenOf(child2(root, "types", "dataTypes"), "dataType"),
               LAMBDA dtNodes :
                  [i \in 1..Len(dtNodes) |->
                      [name |-> attr(dtNodes[i], "name"),
                       declText |-> reconstructDUT(dtNodes[i])]]),
          With2(child2(root, "instances", "configurations"),
                ChildrenOf(child(root, "addData"), "data"),
               LAMBDA configs, datas :
                  (IF configs = Absent THEN << >> ELSE extractGVLsRecursive(configs[1]))
                  \o Flatten([i \in 1..Len(datas) |->
                         With(child(datas[i], "resource"),
                              LAMBDA res : IF res = Absent THEN << >>
                                           ELSE extractGVLsRecursive(res[1]))])),
         LAMBDA allPOUs, allDUTs, allGVLs :
            [projFolders |-> projFolders,
             units |-> [i \in 1..Len(allPOUs) |-> [class |-> "pou", unit |-> allPOUs[i]]]
                       \o [i \in 1..Len(allDUTs) |-> [class |-> "dut", unit |-> allDUTs[i]]]
                       \o [i \in 1..Len(allGVLs) |-> [class |-> "gvl", unit |-> allGVLs[i]]]]))

\* value of the -flat flag of plcopen2st (its default)
Flat == FALSE

\* relPath of one unit in the write loops of main
plcopen2st_relPath(u, projFolders) ==
    With(FolderOf(projFolders, u.unit.name),
         LAMBDA mapped :
    With(IF u.class = "pou" /\ mapped = "" THEN u.unit.folder ELSE mapped,
         LAMBDA folder :
            IF ~Flat /\ folder # "" THEN PathJoin(<< folder, u.unit.name \o ".st" >>)
            ELSE u.unit.name \o ".st"))

plcopen2st_content(u) ==
    IF u.class = "pou" THEN generatePOUST(u.unit)
    ELSE IF u.class = "dut" THEN generateDUTST(u.unit)
    ELSE generateGVLST(u.unit)

pouTypeLabel(pouType) ==
    CASE pouType = "function" -> "FUNCTION"
      [] pouType = "functionBlock" -> "FB"
      [] pouType = "program" -> "PROGRAM"
      [] OTHER -> pouType

\* ---------------------------------------------------------------------------
\* The input space: a source tree of .st files, and documents of foreign origin
\* ---------------------------------------------------------------------------

\* the largest number of source files in one exporter run
MaxFiles == 2

\* The .st files a run can find, in the order the directory walk lists them.
SourceTree ==
    << [dir |-> << >>, stem |-> "Add",
        raw |-> "FUNCTION Add : INT\nVAR_INPUT\n  a : INT;\nEND_VAR\nAdd := a;\nEND_FUNCTION\n"],
       [dir |-> << >>, stem |-> "Counter",
        raw |-> "FUNCTION_BLOCK Counter\nVAR_OUTPUT\n  q : BOOL;\nEND_VAR\nVAR\n  n : INT := 1;\nEND_VAR\nVAR\n  m : INT;\nEND_VAR\nq := n > m;\nEND_FUNCTION_BLOCK\n"],
       [dir |-> << >>, stem |-> "CounterB",
        raw |-> "FUNCTION_BLOCK Counter\nVAR\nEND_VAR\nn := 2;\nEND_FUNCTION_BLOCK\n"],
       [dir |-> << >>, stem |-> "Empty",
        raw |-> "CONFIGURATION Empty\nEND_CONFIGURATION\n"],
       [dir |-> << >>, stem |-> "Globals",
        raw |-> "CONFIGURATION Globals\r\n    VAR_GLOBAL\r\n        G : INT := 0;\r\n    END_VAR\r\nEND_CONFIGURATION\r\n"],
       [dir |-> << >>, stem |-> "Idle",
        raw |-> "PROGRAM Idle\nVAR\nEND_VAR\nEND_PROGRAM\n"],
       [dir |-> << >>, stem |-> "Indent",
        raw |-> "FUNCTION_BLOCK Indent\nVAR\n  x : INT;\nEND_VAR\n    x := 1;\nEND_FUNCTION_BLOCK\n"],
       [dir |-> << "Lib" >>, stem |-> "Counter",
        raw |-> "FUNCTION_BLOCK Counter\nVAR\nEND_VAR\nn := 3;\nEND_FUNCTION_BLOCK\n"],
       [dir |-> << >>, stem |-> "Main",
        raw |-> "PROGRAM Main\rx := 1;\rEND_PROGRAM\r"],
       [dir |-> << >>, stem |-> "Notes",
        raw |-> "HELLO world\n"],
       [dir |-> << >>, stem |-> "Point",
        raw |-> "TYPE Point :\nSTRUCT\n  x : INT;\nEND_STRUCT\nEND_TYPE\n"] >>

\* the file lists of a run: the selections of at most MaxFiles files
FileSelections == { sel \in SUBSET (1..Len(SourceTree)) : Cardinality(sel) <= MaxFiles }

\* the selected files in walk order
FilesOf(sel) == SelectSeq(SourceTree, LAMBDA f : \E i \in sel : SourceTree[i] = f)

\* EXP documents that did not come from st2exp23
ForeignExp ==
    { "\r\n",
      "(* @NESTEDCOMMENTS := 'Yes' *)\r\n(* @PATH := '' *)\r\nFUNCTION_BLOCK FB_Test\r\nVAR_OUTPUT\r\n  y : BOOL;\r\nEND_VAR\r\n(* @END_DECLARATION := '0' *)\r\n_FBD_BODY\r\nEND_FUNCTION_BLOCK\r\n\r\n",
      "(* @NESTEDCOMMENTS := 'Yes' *)\r\n(* @PATH := '\\/Lib' *)\r\nPROGRAM P_Test\r\nVAR_OUTPUT\r\n  q : INT := 3;\r\nEND_VAR\r\n(* @END_DECLARATION := '0' *)\r\n_LD_BODY\r\nEND_PROGRAM\r\n\r\n"
      \o "(* @NESTEDCOMMENTS := 'Yes' *)\r\n(* @PATH := '' *)\r\nFUNCTION F_Test : BOOL\r\nVAR_INPUT\r\n  a : BOOL;\r\nEND_VAR\r\n(* @END_DECLARATION := '0' *)\r\n_IL_BODY\r\nEND_FUNCTION\r\n\r\n" }

\* an entry of a CoDeSys tree written by CoDeSys itself
ForeignEntry(name, typeGuid, decl, impl) ==
    [IsRoot |-> Present("False"),
     MetaObject |-> Present([Guid |-> 0, ParentGuid |-> 0, Name |-> name,
                             TypeGuid |-> Present(typeGuid)]),
     Object |-> Present([Interface |-> decl, Implementation |-> impl]),
     ParentSVNodeGuid |-> 0,
     Path |-> Present(<< "Device", "PLC Logic", "Application" >>)]

\* a CoDeSys tree document: which of the required elements exist, and the entries
ExportDoc(sv, top, list, entries) ==
    [wellFormed |-> TRUE, StructuredView |-> sv, TopSingle |-> top, EntryList |-> list,
     entries |-> entries]

\* a file that xml.Unmarshal rejects
Malformed == [wellFormed |-> FALSE]

\* CoDeSys trees that did not come from st2exp35
ForeignExport ==
    { Malformed,
      ExportDoc(TRUE, TRUE, TRUE, << >>),
      ExportDoc(FALSE, FALSE, FALSE, << >>),
      ExportDoc(TRUE, FALSE, FALSE, << >>),
      ExportDoc(TRUE, TRUE, FALSE, << >>),
      ExportDoc(TRUE, TRUE, TRUE,
         << [IsRoot |-> Absent, MetaObject |-> Absent, Object |-> Absent,
             ParentSVNodeGuid |-> 0, Path |-> Absent],
            ForeignEntry(Absent, tPOU, Absent, Absent),
            ForeignEntry(Present("Visu"), "f18bec89", Present("x"), Absent),
            ForeignEntry(Present("Void"), tPOU, Absent, Absent),
            ForeignEntry(Present("FB_Test"), tPOU,
               Present("FUNCTION_BLOCK FB_Test\nVAR_OUTPUT\n  y : BOOL;\nEND_VAR\n"),
               Present("&lt;FBD /&gt;")) >>),
      ExportDoc(TRUE, TRUE, TRUE,
         << ForeignEntry(Present("FB_Odd"), tPOU,
               Present("FUNCTION_BLOCK FB_Odd\nVAR_OUTPUT\n  y :\nEND_VAR\n"), Absent) >>),
      ExportDoc(TRUE, TRUE, TRUE,
         << ForeignEntry(Present("P_Test"), tPOU,
               Present("PROGRAM P_Test\nVAR_OUTPUT\n  q : INT := 3;\nEND_VAR\n"),
               Present("&lt;LD /&gt;")),
            ForeignEntry(Present("F_Test"), tPOU,
               Present("FUNCTION F_Test : BOOL\nVAR_INPUT\n  a : BOOL;\nEND_VAR\n"),
               Present("&lt;IL /&gt;")) >>) }

\* a PLCOpen project element around the given types, instances and addData children
ForeignProject(types, instances, addData) ==
    [wellFormed |-> TRUE, bytes |-> "",
     root |-> Nest("project", << >>,
                   << Nest("types", << >>, types), Nest("instances", << >>, instances),
                      Nest("addData", << >>, addData) >>)]

\* a variable element of type INT
IntVariable(name) ==
    Nest("variable", << Attr("name", name) >>,
         << Nest("type", << >>, << EmptyEl("INT", << >>) >>) >>)

\* the addData element that carries the declaration of a unit as plain text
PlainTextData(text) ==
    Nest("addData", << >>,
         << Nest("data", << Attr("name", "http://www.3s-software.com/plcopenxml/interfaceasplaintext"),
                            Attr("handleUnknown", "implementation") >>,
                 << Nest("InterfaceAsPlainText", << >>,
                         << TextEl("xhtml", << >>, text) >>) >>) >>)

\* PLCOpen documents that did not come from st2plcopen
ForeignPlcopen ==
    { Malformed,
      ForeignProject(<< EmptyEl("dataTypes", << >>), EmptyEl("pous", << >>) >>,
                     << EmptyEl("configurations", << >>) >>, << >>),
      ForeignProject(
         << Nest("pous", << >>,
              << Nest("pou", << Attr("name", "FB_Test"), Attr("pouType", "functionBlock") >>,
                   << Nest("interface", << >>,
                        << Nest("outputVars", << >>,
                             << Nest("variable", << Attr("name", "y") >>,
                                  << Nest("type", << >>, << EmptyEl("BOOL", << >>) >>) >>) >>) >>),
                      Nest("body", << >>, << Nest("FBD", << >>, << >>) >>) >>) >>) >>,
         << Nest("configurations", << >>,
              << Nest("configuration", << Attr("name", "Config") >>,
                   << Nest("resource", << Attr("name", "Res") >>,
                        << Nest("globalVars", << Attr("name", "GVL") >>,
                             << Nest("variable", << Attr("name", "g") >>,
                                  << Nest("type", << >>, << EmptyEl("INT", << >>) >>) >>) >>) >>) >>) >>) >>,
         << >>),
      ForeignProject(
         << Nest("dataTypes", << >>,
              << Nest("dataType", << Attr("name", "Point") >>,
                   << Nest("baseType", << >>,
                        << Nest("struct", << >>, << IntVariable("x") >>) >>),
                      PlainTextData("TYPE Point :\nSTRUCT\n  x : INT; // east\nEND_STRUCT\nEND_TYPE") >>),
                 Nest("dataType", << Attr("name", "Pair") >>,
                   << Nest("baseType", << >>,
                        << Nest("struct", << >>, << IntVariable("a") >>) >>) >>) >>),
            Nest("pous", << >>,
              << Nest("pou", << Attr("name", "P_Test"), Attr("pouType", "program") >>,
                   << Nest("interface", << >>,
                        << Nest("outputVars", << >>, << IntVariable("q") >>) >>),
                      Nest("body", << >>, << Nest("LD", << >>, << >>) >>) >>),
                 Nest("pou", << Attr("name", "F_Test"), Attr("pouType", "function") >>,
                   << Nest("interface", << >>,
                        << Nest("returnType", << >>, << EmptyEl("BOOL", << >>) >>),
                           Nest("inputVars", << >>, << IntVariable("a") >>) >>),
                      Nest("body", << >>, << Nest("IL", << >>, << >>) >>) >>),
                 Nest("pou", << Attr("name", "FB_Ipt"), Attr("pouType", "functionBlock") >>,
                   << Nest("interface", << >>,
                        << Nest("outputVars", << >>, << IntVariable("y") >>) >>),
                      Nest("body", << >>, << Nest("SFC", << >>, << >>) >>),
                      PlainTextData("FUNCTION_BLOCK FB_Ipt\nVAR_OUTPUT\n  (* lamp *)\n  y : BOOL := TRUE;\nEND_VAR") >>) >>) >>,
         << Nest("configurations", << >>,
              << Nest("configuration", << Attr("name", "Config") >>,
                   << Nest("resource", << Attr("name", "Res") >>,
                        << Nest("globalVars", << Attr("name", "Settings") >>,
                             << IntVariable("g"),
                                PlainTextData("VAR_GLOBAL\n  g : INT := 7; // limit\nEND_VAR") >>),
                           Nest("globalVars", << Attr("name", "Flags") >>,
                             << IntVariable("f") >>) >>) >>) >>) >>,
         << >>) }

\* whether the operating system lets an importer create and write a file
WriteOutcomes == {TRUE, FALSE}

\* ---------------------------------------------------------------------------
\* State
\* ---------------------------------------------------------------------------

VARIABLES
    tool,        \* the format of the run: "exp23", "exp35" or "plcopen"
    files,       \* the source files the exporter found, in walk order
    pc,          \* position of the run
    idx,         \* exporter main loop: index of the next file
    nextGuid,    \* the next fresh identifier newGUID returns
    expAll,      \* st2exp23: the builder all
    processed,   \* st2exp23: number of files converted
    folders,     \* st2exp35: syntheticRoot; st2plcopen: projRoot
    allObjs,     \* st2exp35: allObjs
    pous,        \* st2plcopen: pous
    gvls,        \* st2plcopen: gvls
    dutSources,  \* st2plcopen: dutSources
    document,    \* the exchanged file: << >> while not written, << doc >> after
    projFolders, \* plcopen2st: projFolders
    units,       \* importer: the objects still to process
    outFS,       \* importer: the files written, relative path -> content
    written,     \* importer counters
    skipped,
    stubbed,
    stdout,      \* the progress lines and the summary
    stderr,      \* warnings and errors, in order
    arg,         \* a function called on its own: the arguments of the call
    ret          \* a function called on its own: the values returned so far

vars == << tool, files, pc, idx, nextGuid, expAll, processed, folders, allObjs, pous, gvls,
           dutSources, document, projFolders, units, outFS, written, skipped, stubbed,
           stdout, stderr, arg, ret >>

\* the variables of a call of one function outside a run
callVars == << arg, ret >>

exporterVars == << idx, nextGuid, expAll, processed, folders, allObjs, pous, gvls, dutSources >>

importerVars == << projFolders, units, outFS, written, skipped, stubbed >>

\* os.WriteFile(path, content): create or replace
WriteFile(fs, path, content) ==
    [p \in DOMAIN fs \cup {path} |-> IF p = path THEN content ELSE fs[p]]

NoFiles == [p \in {} |-> ""]

\* identifier of st2exp35's syntheticRoot and of its structured view
RootGuid == 1

SvRootGuid == 2

InitCommon ==
    /\ idx = 1
    /\ nextGuid = IF tool = "exp35" THEN SvRootGuid + 1 ELSE 1
    /\ expAll = "\r\n"
    /\ processed = 0
    /\ folders = IF tool = "exp35"
                 THEN [q \in { << >> } |-> [guid |-> RootGuid, objects |-> << >>]]
                 ELSE [q \in { << >> } |-> << >>]
    /\ allObjs = << >>
    /\ pous = << >>
    /\ gvls = << >>
    /\ dutSources = << >>
    /\ projFolders = << >>
    /\ units = << >>
    /\ outFS = NoFiles
    /\ written = 0
    /\ skipped = 0
    /\ stubbed = 0
    /\ stdout = << >>
    /\ stderr = << >>

\* a run of a tool calls no function on its own
NoCall == arg = << >> /\ ret = << >>

\* an exporter run over a selection of source files, followed by the importer
InitExport(t) ==
    /\ tool = t
    /\ \E sel \in FileSelections : files = FilesOf(sel)
    /\ pc = "export"
    /\ document = << >>
    /\ InitCommon
    /\ NoCall

\* an importer run over a document of foreign origin
InitImport(t, docs) ==
    /\ tool = t
    /\ files = << >>
    /\ pc = "exported"
    /\ \E d \in docs : document = << d >>
    /\ InitCommon
    /\ NoCall

Init23 == InitExport("exp23") \/ InitImport("exp23", ForeignExp)

Init35 == InitExport("exp35") \/ InitImport("exp35", ForeignExport)

InitPlc == InitExport("plcopen") \/ InitImport("plcopen", ForeignPlcopen)

\* every exporter stops when the walk found no .st file
NoSourceFiles ==
    /\ pc = "export" /\ Len(files) = 0
    /\ pc' = "exportFatal"
    /\ stderr' = Append(stderr, "no .st files found")
    /\ UNCHANGED << tool, files, document, stdout >>
    /\ UNCHANGED exporterVars
    /\ UNCHANGED importerVars
    /\ UNCHANGED callVars

\* ---------------------------------------------------------------------------
\* st2exp23 main
\* ---------------------------------------------------------------------------

\* one iteration of the loop over stFiles
St2exp23File ==
    /\ tool = "exp23" /\ pc = "export" /\ idx <= Len(files)
    /\ With(st2exp23_convertFile(files[idx], st2exp23_filePath(files[idx])),
            LAMBDA r :
               IF r.err # ""
               THEN /\ stderr' = Append(stderr, "WARNING: " \o r.err)
                    /\ UNCHANGED << expAll, processed >>
               ELSE /\ expAll' = expAll \o r.block
                    /\ processed' = processed + 1
                    /\ UNCHANGED stderr)
    /\ idx' = idx + 1
    /\ stdout' = Append(stdout, [file |-> files[idx].stem \o ".st",
                                 path |-> st2exp23_filePath(files[idx])])
    /\ UNCHANGED << tool, files, pc, document >>
    /\ UNCHANGED << nextGuid, folders, allObjs, pous, gvls, dutSources >>
    /\ UNCHANGED importerVars
    /\ UNCHANGED callVars

\* after the loop: log.Fatal when nothing was converted, else write the file
St2exp23Write ==
    /\ tool = "exp23" /\ pc = "export" /\ Len(files) > 0 /\ idx > Len(files)
    /\ IF processed = 0
       THEN /\ pc' = "exportFatal"
            /\ stderr' = Append(stderr, "no files were successfully converted")
            /\ UNCHANGED document
       ELSE /\ pc' = "exported"
            /\ document' = << TrimRight(expAll, "\r\n") \o "\r\n" >>
            /\ UNCHANGED stderr
    /\ UNCHANGED << tool, files, stdout >>
    /\ UNCHANGED exporterVars
    /\ UNCHANGED importerVars
    /\ UNCHANGED callVars

\* ---------------------------------------------------------------------------
\* exp2st23 main
\* ---------------------------------------------------------------------------

\* read the input, normalise CRLF, split into blocks; exit when there is none
Exp2st23Read ==
    /\ tool = "exp23" /\ pc = "exported"
    /\ With(exp2st23_splitObjects(ReplaceAll(document[1], "\r\n", "\n")),
            LAMBDA blocks :
               IF Len(blocks) = 0
               THEN /\ pc' = "importFatal"
                    /\ stderr' = Append(stderr, "no objects found in input file")
                    /\ UNCHANGED units
               ELSE /\ pc' = "import"
                    /\ units' = blocks
                    /\ UNCHANGED stderr)
    /\ UNCHANGED << tool, files, document, stdout >>
    /\ UNCHANGED << projFolders, outFS, written, skipped, stubbed >>
    /\ UNCHANGED exporterVars
    /\ UNCHANGED callVars

\* one iteration of the loop over blocks
Exp2st23Block ==
    /\ tool = "exp23" /\ pc = "import" /\ Len(units) > 0
    /\ units' = Tail(units)
    /\ With(exp2st23_parseBlock(Head(units)),
            LAMBDA obj :
       With2(exp2st23_generateST(obj),
             /\ obj.kind \in {"kindFunction", "kindFunctionBlock", "kindProgram"}
             /\ ~exp2st23_isSTBody(obj.body),
            LAMBDA g, wasStubbed :
               IF obj.name = ""
               THEN /\ stderr' = Append(stderr, "WARNING: skipping unrecognized block")
                    /\ skipped' = skipped + 1
                    /\ UNCHANGED << outFS, written, stubbed, stdout >>
               ELSE \E ok \in WriteOutcomes :
                      IF ~ok
                      THEN /\ stderr' = Append(stderr, "cannot write " \o g.relPath)
                           /\ UNCHANGED << outFS, written, skipped, stubbed, stdout >>
                      ELSE /\ outFS' = WriteFile(outFS, g.relPath, g.content)
                           /\ stubbed' = IF wasStubbed THEN stubbed + 1 ELSE stubbed
                           /\ written' = written + 1
                           /\ stdout' = Append(stdout,
                                  [label |-> exp2st23_kindLabel(obj.kind), path |-> g.relPath,
                                   tag |-> IF wasStubbed THEN " [STUB]" ELSE ""])
                           /\ UNCHANGED << skipped, stderr >>))
    /\ UNCHANGED << tool, files, pc, document, projFolders >>
    /\ UNCHANGED exporterVars
    /\ UNCHANGED callVars

\* the summary line that ends every importer run
ImportDone ==
    /\ pc = "import" /\ Len(units) = 0
    /\ pc' = "done"
    /\ stdout' = Append(stdout, [done |-> written, stubs |-> stubbed, skippedUnits |-> skipped])
    /\ UNCHANGED << tool, files, document, stderr >>
    /\ UNCHANGED importerVars
    /\ UNCHANGED exporterVars
    /\ UNCHANGED callVars

\* ---------------------------------------------------------------------------
\* st2exp35 main
\* ---------------------------------------------------------------------------

kindName(k) ==
    CASE k = "kindProgram" -> "PROGRAM"
      [] k = "kindFunctionBlock" -> "FUNCTION_BLOCK"
      [] k = "kindFunction" -> "FUNCTION"
      [] k = "kindGVL" -> "GVL"
      [] k = "kindDUT" -> "DUT"
      [] OTHER -> "unknown"

\* one iteration of the loop over files
St2exp35File ==
    /\ tool = "exp35" /\ pc = "export" /\ idx <= Len(files)
    /\ With(st2exp35_convertFile(files[idx], nextGuid),
            LAMBDA obj :
       With(SubSeq(obj.pathParts, 1, Len(obj.pathParts) - 1),
            LAMBDA folderParts :
               /\ folders' = [ensurePath(folders, folderParts, nextGuid + 1)
                                 EXCEPT ![folderParts].objects = Append(@, obj)]
               /\ nextGuid' = nextGuid + 1 + MissingFolders(folders, folderParts)
               /\ allObjs' = Append(allObjs, obj)
               /\ stdout' = Append(stdout, [file |-> files[idx].stem \o ".st",
                                            kind |-> kindName(obj.kind),
                                            path |-> Join(obj.pathParts, "/")])))
    /\ idx' = idx + 1
    /\ UNCHANGED << tool, files, pc, document, stderr >>
    /\ UNCHANGED << expAll, processed, pous, gvls, dutSources >>
    /\ UNCHANGED importerVars
    /\ UNCHANGED callVars

\* after the loop: the export file with one entry per folder and per object
St2exp35Write ==
    /\ tool = "exp35" /\ pc = "export" /\ Len(files) > 0 /\ idx > Len(files)
    /\ pc' = "exported"
    /\ document' = << ExportDoc(TRUE, TRUE, TRUE, walkFolders(folders, << >>, SvRootGuid, BasePath)) >>
    /\ stdout' = Append(stdout, [writtenObjects |-> Len(allObjs)])
    /\ UNCHANGED << tool, files, stderr >>
    /\ UNCHANGED exporterVars
    /\ UNCHANGED importerVars
    /\ UNCHANGED callVars

\* ---------------------------------------------------------------------------
\* exp2st35 main
\* ---------------------------------------------------------------------------

\* strip as main computes it from -strip (stripN) and the elements of -base
exp2st35_stripOf(stripN, base) == IF stripN = 0 THEN Len(base) ELSE stripN

\* strip of the runs: the flags at their defaults
exp2st35_strip == exp2st35_stripOf(StripFlag, BasePath)

\* parse the file and locate the entry list; each missing element is fatal
Exp2st35Read ==
    /\ tool = "exp35" /\ pc = "exported"
    /\ With(IF ~document[1].wellFormed THEN "XML parse error"
            ELSE IF ~document[1].StructuredView THEN "no StructuredView element found"
            ELSE IF ~document[1].TopSingle THEN "no top Single element found"
            ELSE IF ~document[1].EntryList THEN "no EntryList element found"
            ELSE "",
            LAMBDA failure :
               IF failure # ""
               THEN /\ pc' = "importFatal"
                    /\ stderr' = Append(stderr, failure)
                    /\ UNCHANGED units
               ELSE /\ pc' = "import"
                    /\ units' = document[1].entries
                    /\ UNCHANGED stderr)
    /\ UNCHANGED << tool, files, document, stdout >>
    /\ UNCHANGED << projFolders, outFS, written, skipped, stubbed >>
    /\ UNCHANGED exporterVars
    /\ UNCHANGED callVars

\* one iteration of the loop over entries
Exp2st35Entry ==
    /\ tool = "exp35" /\ pc = "import" /\ Len(units) > 0
    /\ units' = Tail(units)
    /\ With(exp2st35_parseEntry(Head(units)),
            LAMBDA parsed :
               IF parsed = Absent
               THEN UNCHANGED << pc, outFS, written, skipped, stubbed, stdout, stderr >>
               ELSE
       With3(parsed[1], exp2st35_generateST(parsed[1], exp2st35_strip),
             parsed[1].typeGUID = tPOU /\ ~exp2st35_isST(parsed[1].impl),
            LAMBDA obj, g, wasStubbed :
               IF (obj.isRoot /\ obj.typeGUID = tFolder) \/ (obj.decl = "" /\ obj.impl = "")
               THEN /\ skipped' = skipped + 1
                    /\ UNCHANGED << pc, outFS, written, stubbed, stdout, stderr >>
               ELSE IF wasStubbed /\ exp2st35_stubPanics(Split(obj.decl, "\n"), FALSE)
               THEN /\ pc' = "panic"
                    /\ stderr' = Append(stderr, "panic: runtime error: index out of range [0] with length 0")
                    /\ UNCHANGED << outFS, written, skipped, stubbed, stdout >>
               ELSE \E ok \in WriteOutcomes :
                      IF ~ok
                      THEN /\ stderr' = Append(stderr, "cannot write " \o g.relPath)
                           /\ UNCHANGED << pc, outFS, written, skipped, stubbed, stdout >>
                      ELSE /\ outFS' = WriteFile(outFS, g.relPath, g.content)
                           /\ stubbed' = IF wasStubbed THEN stubbed + 1 ELSE stubbed
                           /\ written' = written + 1
                           /\ stdout' = Append(stdout,
                                  [label |-> exp2st35_kindLabel(obj.typeGUID), path |-> g.relPath,
                                   tag |-> IF wasStubbed THEN " [STUB]" ELSE ""])
                           /\ UNCHANGED << pc, skipped, stderr >>))
    /\ UNCHANGED << tool, files, document, projFolders >>
    /\ UNCHANGED exporterVars
    /\ UNCHANGED callVars

\* ---------------------------------------------------------------------------
\* st2plcopen main
\* ---------------------------------------------------------------------------

\* one iteration of the loop over files
St2plcopenFile ==
    /\ tool = "plcopen" /\ pc = "export" /\ idx <= Len(files)
    /\ With([st2plcopen_convertFile(files[idx]) EXCEPT !.objectID = nextGuid],
            LAMBDA obj :
       With(SubSeq(obj.pathParts, 1, Len(obj.pathParts) - 1),
            LAMBDA folderParts :
               /\ folders' = [ensureProjPath(folders, folderParts) EXCEPT ![folderParts] =
                                 Append(@, [name |-> obj.name, objectID |-> obj.objectID])]
               /\ gvls' = IF obj.kind = "kindGVL" THEN Append(gvls, obj) ELSE gvls
               /\ dutSources' = IF obj.kind = "kindDUT" THEN Append(dutSources, obj)
                                ELSE dutSources
               /\ pous' = IF obj.kind \notin {"kindGVL", "kindDUT"} THEN Append(pous, obj)
                          ELSE pous
               /\ stdout' = Append(stdout, [file |-> files[idx].stem \o ".st",
                                            kind |-> kindName(obj.kind),
                                            path |-> Join(obj.pathParts, "/")])))
    /\ nextGuid' = nextGuid + 1
    /\ idx' = idx + 1
    /\ UNCHANGED << tool, files, pc, document, stderr >>
    /\ UNCHANGED << expAll, processed, allObjs >>
    /\ UNCHANGED importerVars
    /\ UNCHANGED callVars

\* after the loop: the data types are parsed and the document is written
St2plcopenWrite ==
    /\ tool = "plcopen" /\ pc = "export" /\ Len(files) > 0 /\ idx > Len(files)
    /\ With(st2plcopen_allDUTs(dutSources, nextGuid),
            LAMBDA allDUTs :
       With(st2plcopen_project(pous, gvls, allDUTs, folders),
            LAMBDA project :
               /\ document' = << [wellFormed |-> TRUE, root |-> project,
                                  bytes |-> st2plcopen_output(project)] >>
               /\ nextGuid' = nextGuid + Len(allDUTs)
               /\ stdout' = Append(stdout, [writtenPOUs |-> Len(pous),
                                            writtenGVLs |-> Len(gvls),
                                            writtenDUTs |-> Len(allDUTs)])))
    /\ pc' = "exported"
    /\ UNCHANGED << tool, files, stderr >>
    /\ UNCHANGED << idx, expAll, processed, folders, allObjs, pous, gvls, dutSources >>
    /\ UNCHANGED importerVars
    /\ UNCHANGED callVars

\* ---------------------------------------------------------------------------
\* plcopen2st main
\* ---------------------------------------------------------------------------

\* parse the file and collect the POUs, data types and global variable lists
Plcopen2stRead ==
    /\ tool = "plcopen" /\ pc = "exported"
    /\ IF ~document[1].wellFormed
       THEN /\ pc' = "importFatal"
            /\ stderr' = Append(stderr, "XML parse error")
            /\ UNCHANGED << units, projFolders >>
       ELSE With(plcopen2st_collect(document[1].root),
                 LAMBDA c :
                    /\ pc' = "import"
                    /\ units' = c.units
                    /\ projFolders' = c.projFolders
                    /\ UNCHANGED stderr)
    /\ UNCHANGED << tool, files, document, stdout >>
    /\ UNCHANGED << outFS, written, skipped, stubbed >>
    /\ UNCHANGED exporterVars
    /\ UNCHANGED callVars

\* one iteration of one of the three write loops
Plcopen2stUnit ==
    /\ tool = "plcopen" /\ pc = "import" /\ Len(units) > 0
    /\ units' = Tail(units)
    /\ With3(Head(units), plcopen2st_relPath(Head(units), projFolders),
             /\ Head(units).class = "pou"
             /\ Head(units).unit.bodyType # "ST"
             /\ Head(units).unit.bodyType # "",
            LAMBDA u, relPath, isStub :
               \E ok \in WriteOutcomes :
                 IF ~ok
                 THEN /\ stderr' = Append(stderr, "cannot write " \o relPath)
                      /\ UNCHANGED << outFS, written, stubbed, stdout >>
                 ELSE /\ outFS' = WriteFile(outFS, relPath, plcopen2st_content(u))
                      /\ stubbed' = IF isStub THEN stubbed + 1 ELSE stubbed
                      /\ written' = written + 1
                      /\ stdout' = Append(stdout,
                             [label |-> IF u.class = "pou" THEN pouTypeLabel(u.unit.pouType)
                                        ELSE IF u.class = "dut" THEN "DUT" ELSE "GVL",
                              path |-> relPath,
                              tag |-> IF isStub THEN " [STUB:" \o u.unit.bodyType \o "]"
                                      ELSE ""])
                      /\ UNCHANGED stderr)
    /\ UNCHANGED << tool, files, pc, document, projFolders, skipped >>
    /\ UNCHANGED exporterVars
    /\ UNCHANGED callVars

\* ---------------------------------------------------------------------------
\* Specifications: one per format, and the two exporters that write CRLF
\* ---------------------------------------------------------------------------

Next23 ==
    \/ NoSourceFiles
    \/ St2exp23File
    \/ St2exp23Write
    \/ Exp2st23Read
    \/ Exp2st23Block
    \/ ImportDone

Spec23 == Init23 /\ [][Next23]_vars

Next35 ==
    \/ NoSourceFiles
    \/ St2exp35File
    \/ St2exp35Write
    \/ Exp2st35Read
    \/ Exp2st35Entry
    \/ ImportDone

Spec35 == Init35 /\ [][Next35]_vars

NextPlc ==
    \/ NoSourceFiles
    \/ St2plcopenFile
    \/ St2plcopenWrite
    \/ Plcopen2stRead
    \/ Plcopen2stUnit
    \/ ImportDone

SpecPlc == InitPlc /\ [][NextPlc]_vars

InitExporters == InitExport("exp23") \/ InitExport("plcopen")

NextExporters ==
    \/ NoSourceFiles
    \/ St2exp23File
    \/ St2exp23Write
    \/ St2plcopenFile
    \/ St2plcopenWrite

SpecExporters == InitExporters /\ [][NextExporters]_vars

\* ---------------------------------------------------------------------------
\* Calls of one function
\* ---------------------------------------------------------------------------

\* everything a call of one function leaves alone
runVars == << tool, files, document, stdout, stderr, idx, nextGuid, expAll, processed,
              folders, allObjs, pous, gvls, dutSources, projFolders, units, outFS, written,
              skipped, stubbed >>

\* the functions of tool t are called on one of the arguments args
InitCall(t, p, args) ==
    /\ tool = t
    /\ files = << >>
    /\ pc = p
    /\ document = << >>
    /\ InitCommon
    /\ arg \in args
    /\ ret = << >>

\* the global variable lists the wrapper is applied to
GvlNames == {"Globals", "IO"}

GvlBodies ==
    { "VAR_GLOBAL\n  G : INT := 0;\nEND_VAR",
      "VAR_GLOBAL\n  G : INT := 0;\nEND_VAR\n",
      "VAR_GLOBAL CONSTANT\n\tMAX : INT := 10;\nEND_VAR\n",
      "VAR_GLOBAL\n  A : INT;\nEND_VAR\nVAR_GLOBAL\n  B : BOOL;\nEND_VAR\n",
      "VAR_GLOBAL\n  A : INT;\n\n  B : BOOL;\nEND_VAR\n",
      "VAR_GLOBAL\nEND_VAR\n",
      "{attribute 'qualified_only'}\nVAR_GLOBAL\n  G : INT;\nEND_VAR\n",
      "// plant-wide settings\nVAR_GLOBAL\n  G : INT;\nEND_VAR\n" }

\* the declaration the next wrap is applied to: the body, then the unwrapped text
WrapInput == IF Len(ret) = 0 THEN arg.body ELSE ret[Len(ret)]

\* generateST of exp2st35 on a global variable list
Exp2st35WrapGVL ==
    /\ tool = "exp35" /\ pc = "gvl" /\ Len(ret) \in {0, 2}
    /\ ret' = Append(ret, exp2st35_generateST(
                              [name |-> arg.name, typeGUID |-> tGVL, path |-> << >>,
                               decl |-> WrapInput, impl |-> "", isRoot |-> FALSE], 0).content)
    /\ UNCHANGED << pc, arg, runVars >>

\* convertFile of st2exp35 on the file exp2st35 wrote: the lines of the
\* normalised source go through extractGVLFromConfiguration
St2exp35UnwrapGVL ==
    /\ tool = "exp35" /\ pc = "gvl" /\ Len(ret) = 1
    /\ ret' = Append(ret, st2exp35_extractGVLFromConfiguration(
                              Split(NormalizeNewlines(ret[1]), "\n")))
    /\ UNCHANGED << pc, arg, runVars >>

\* generateGVLST of plcopen2st
Plcopen2stWrapGVL ==
    /\ tool = "plcopen" /\ pc = "gvl" /\ Len(ret) \in {0, 2}
    /\ ret' = Append(ret, generateGVLST([name |-> arg.name, declText |-> WrapInput]))
    /\ UNCHANGED << pc, arg, runVars >>

\* convertFile of st2plcopen on the file plcopen2st wrote
St2plcopenUnwrapGVL ==
    /\ tool = "plcopen" /\ pc = "gvl" /\ Len(ret) = 1
    /\ ret' = Append(ret, st2plcopen_extractGVLFromConfiguration(
                              Split(NormalizeNewlines(ret[1]), "\n")))
    /\ UNCHANGED << pc, arg, runVars >>

InitGvl ==
    \E t \in {"exp35", "plcopen"} : InitCall(t, "gvl", [name : GvlNames, body : GvlBodies])

NextGvl ==
    \/ Exp2st35WrapGVL
    \/ St2exp35UnwrapGVL
    \/ Plcopen2stWrapGVL
    \/ St2plcopenUnwrapGVL

SpecGvl == InitGvl /\ [][NextGvl]_vars

\* first lines of source files and of declarations
KindLines ==
    { "FUNCTION_BLOCK Foo", "  FUNCTION_BLOCK Foo", "FUNCTION_BLOCK FB_Test",
      "FUNCTION Foo : INT", "FUNCTION FUNCTION_BLOCK", "PROGRAM Main",
      "TYPE Point :", "VAR_GLOBAL", "CONFIGURATION Globals", "HELLO world" }

\* the function of tool fn has not been called yet
NotCalled(fn) == \A k \in 1..Len(ret) : ret[k].fn # fn

St2exp23DetectKind ==
    /\ pc = "kind" /\ NotCalled("st2exp23")
    /\ ret' = Append(ret, [fn |-> "st2exp23", kind |-> st2exp23_detectKind(arg)])
    /\ UNCHANGED << pc, arg, runVars >>

Exp2st23DetectKind ==
    /\ pc = "kind" /\ NotCalled("exp2st23")
    /\ ret' = Append(ret, [fn |-> "exp2st23", kind |-> exp2st23_detectKind(arg)])
    /\ UNCHANGED << pc, arg, runVars >>

St2exp35DetectKind ==
    /\ pc = "kind" /\ NotCalled("st2exp35")
    /\ ret' = Append(ret, [fn |-> "st2exp35", kind |-> st2exp35_detectKind(arg)])
    /\ UNCHANGED << pc, arg, runVars >>

St2plcopenDetectKind ==
    /\ pc = "kind" /\ NotCalled("st2plcopen")
    /\ ret' = Append(ret, [fn |-> "st2plcopen", kind |-> st2plcopen_detectKind(arg)])
    /\ UNCHANGED << pc, arg, runVars >>

InitKind == InitCall("any", "kind", KindLines)

NextKind ==
    \/ St2exp23DetectKind
    \/ Exp2st23DetectKind
    \/ St2exp35DetectKind
    \/ St2plcopenDetectKind

SpecKind == InitKind /\ [][NextKind]_vars

\* the most calls of one function on the same arguments
MaxCalls == 2

\* a line of a VAR block: its text and what it declares (name "" when it
\* declares nothing; class is the type class the default-value policy tells apart)
VarLine(text, form, name, class, init) ==
    [text |-> text, form |-> form, name |-> name, class |-> class, init |-> init]

StubLines ==
    { VarLine("  y : BOOL;", "var", "y", "bool", ""),
      VarLine("  b : BOOL := TRUE;", "var", "b", "bool", "TRUE"),
      VarLine("  n : INT := 5;", "var", "n", "other", "5"),
      VarLine("  t : TIME;", "var", "t", "other", ""),
      VarLine("  s : STRING(20);", "var", "s", "string", ""),
      VarLine("\tm : STRING := 'on';", "var", "m", "string", "'on'"),
      VarLine("  q : BOOL; // done", "var", "q", "bool", ""),
      VarLine("  // spare : INT;", "comment", "", "", ""),
      VarLine("  (* spare : INT; *)", "comment", "", "", ""),
      VarLine("  (* retired\n  z : INT;\n  *)", "comment", "", "", ""),
      VarLine("  {attribute 'hide'}", "attribute", "", "", ""),
      VarLine("", "blank", "", "", ""),
      VarLine("  w", "malformed", "w", "", ""),
      VarLine("  w :", "malformed", "w", "", ""),
      VarLine("  w : ;", "malformed", "w", "", "") }

BlockKinds == {"VAR_OUTPUT", "VAR_IN_OUT", "VAR_INPUT", "VAR", "VAR_TEMP"}

\* a function block declaration: one block of the kind with the line and the
\* variable r, then a VAR block with the variable k
StubDecl(kind, line) ==
    [kind |-> kind, line |-> line,
     text |-> "FUNCTION_BLOCK FB_Test\n" \o kind \o "\n" \o line.text
              \o "\n  r : REAL;\nEND_VAR\nVAR\n  k : INT;\nEND_VAR\n"]

StubDecls == { StubDecl(kind, line) : kind \in BlockKinds, line \in StubLines }

\* stubBody whose output depends on the calls made before it
Exp2st23StubBody_mutant ==
    /\ tool = "exp23" /\ pc = "stub" /\ Len(ret) < MaxCalls
    /\ ret' = Append(ret, Present(IF Len(ret) = 0 THEN exp2st23_stubBody(arg.text)
                                  ELSE ret[Len(ret)][1] \o "\n"))
    /\ UNCHANGED << pc, arg, runVars >>

\* stubBody of exp2st23
Exp2st23StubBody ==
    /\ tool = "exp23" /\ pc = "stub" /\ Len(ret) < MaxCalls
    /\ ret' = Append(ret, Present(exp2st23_stubBody(arg.text)))
    /\ UNCHANGED << pc, arg, runVars >>

\* stubBody of exp2st35: no value comes back when strings.Fields(rest)[0] is
\* read from an empty slice
Exp2st35StubBody ==
    /\ tool = "exp35" /\ pc = "stub" /\ Len(ret) < MaxCalls
    /\ ret' = Append(ret, IF exp2st35_stubPanics(Split(arg.text, "\n"), FALSE) THEN Absent
                          ELSE Present(exp2st35_stubBody(arg.text)))
    /\ UNCHANGED << pc, arg, runVars >>

\* stubBody of plcopen2st
Plcopen2stStubBody ==
    /\ tool = "plcopen" /\ pc = "stub" /\ Len(ret) < MaxCalls
    /\ ret' = Append(ret, Present(plcopen2st_stubBody(arg.text)))
    /\ UNCHANGED << pc, arg, runVars >>

InitStub == \E t \in {"exp23", "exp35", "plcopen"} : InitCall(t, "stub", StubDecls)

NextStub ==
    \/ Exp2st23StubBody
    \/ Exp2st35StubBody
    \/ Plcopen2stStubBody

SpecStub == InitStub /\ [][NextStub]_vars

\* the three importers, each over documents of foreign origin
InitImporters ==
    \/ InitImport("exp23", ForeignExp)
    \/ InitImport("exp35", ForeignExport)
    \/ InitImport("plcopen", ForeignPlcopen)

NextImporters ==
    \/ Exp2st23Read
    \/ Exp2st23Block
    \/ Exp2st35Read
    \/ Exp2st35Entry
    \/ Plcopen2stRead
    \/ Plcopen2stUnit
    \/ ImportDone

SpecImporters == InitImporters /\ [][NextImporters]_vars

\* the source texts splitDeclImpl is applied to: a header line, the VAR blocks,
\* the body and the end keyword, in every combination
SplitHeaders == {"FUNCTION_BLOCK FB\n", "PROGRAM Main\n"}

SplitVarBlocks ==
    { "",
      "VAR\n  a : INT;\nEND_VAR\n",
      "VAR_INPUT\n  a : INT;\nEND_VAR\nVAR\n  b : INT;\nEND_VAR\n",
      "var\n  a : INT;\n  end_var  \n",
      "VAR\n  a : INT;\nEND_VAR // locals\n" }

SplitBodies == {"", "a := 1;\n", "\n\na := 1;\n\nb := 2;\n\n", "  a := 1;\n"}

SplitTails == {"END_PROGRAM", "END_FUNCTION_BLOCK\n", "", "end_function_block\n\n"}

SplitTexts ==
    { h \o v \o b \o t : h \in SplitHeaders, v \in SplitVarBlocks, b \in SplitBodies,
                         t \in SplitTails }

\* splitDeclImpl of st2exp35
St2exp35SplitDeclImpl ==
    /\ pc \in {"split", "endDecl"} /\ NotCalled("st2exp35")
    /\ ret' = Append(ret, With(st2exp35_splitDeclImpl(arg),
                               LAMBDA r : [fn |-> "st2exp35", decl |-> r.decl, impl |-> r.impl]))
    /\ UNCHANGED << pc, arg, runVars >>

\* splitDeclImpl of st2plcopen
St2plcopenSplitDeclImpl ==
    /\ pc \in {"split", "endDecl"} /\ NotCalled("st2plcopen")
    /\ ret' = Append(ret, With(st2plcopen_splitDeclImpl(arg),
                               LAMBDA r : [fn |-> "st2plcopen", decl |-> r.decl, impl |-> r.impl]))
    /\ UNCHANGED << pc, arg, runVars >>

InitSplit == InitCall("any", "split", SplitTexts)

NextSplit ==
    \/ St2exp35SplitDeclImpl
    \/ St2plcopenSplitDeclImpl

SpecSplit == InitSplit /\ [][NextSplit]_vars

\* the lines convertPou of st2exp23 writes after the metadata header, as
\* [decl, impl]: the lines before and after the end-of-declaration marker
EndDeclarationOf(out) ==
    With(Split(ReplaceAll(out, "\r\n", "\n"), "\n"),
         LAMBDA outLines :
    With2(CHOOSE i \in 1..Len(outLines) :
              /\ ~HasPrefix(outLines[i], "(* @")
              /\ \A j \in 1..(i - 1) : HasPrefix(outLines[j], "(* @"),
          CHOOSE i \in 1..Len(outLines) : outLines[i] = "(* @END_DECLARATION := '0' *)",
         LAMBDA firstLine, marker :
            IF marker < firstLine
            THEN [decl |-> "", impl |-> Join(SubSeq(outLines, marker + 1, Len(outLines)), "\n")]
            ELSE [decl |-> Join(SubSeq(outLines, firstLine, marker - 1), "\n"),
                  impl |-> Join(SubSeq(outLines, marker + 1, Len(outLines)), "\n")]))

\* convertPou of st2exp23 on the lines of the text
St2exp23ConvertPou ==
    /\ pc = "endDecl" /\ NotCalled("st2exp23")
    /\ ret' = Append(ret,
                 With(EndDeclarationOf(
                          st2exp23_convertPou(Split(arg, "\n"),
                                              st2exp23_detectKind(Split(arg, "\n")[1]),
                                              "", ExpPathFlag)),
                      LAMBDA r : [fn |-> "st2exp23", decl |-> r.decl, impl |-> r.impl]))
    /\ UNCHANGED << pc, arg, runVars >>

InitEndDecl == InitCall("any", "endDecl", SplitTexts)

NextEndDecl ==
    \/ St2exp23ConvertPou
    \/ St2exp35SplitDeclImpl
    \/ St2plcopenSplitDeclImpl

SpecEndDecl == InitEndDecl /\ [][NextEndDecl]_vars

\* CONFIGURATION sources: the VAR_GLOBAL blocks of the file, each line indented
\* by the wrapper's indentation
BlockG ==
    << "VAR_GLOBAL", "  G_Counter : INT := 0;", "  G_Enable  : BOOL := TRUE;", "END_VAR" >>

BlockC == << "VAR_GLOBAL CONSTANT", "  MAX : INT := 10;", "END_VAR" >>

ConfSources ==
    [stem : {"Globals", "io"}, name : {"Globals"}, indent : {"\t", "    ", "  "},
     blocks : {<< BlockG >>, << BlockC >>, << BlockG, BlockC >>, << BlockC, BlockG >>}]

\* the text of the source file
ConfText(c) ==
    "CONFIGURATION " \o c.name \o "\n"
    \o Join([b \in 1..Len(c.blocks) |->
                Join([i \in 1..Len(c.blocks[b]) |-> c.indent \o c.blocks[b][i] \o "\n"], "")],
            "")
    \o "END_CONFIGURATION\n"

ConfFile(c) == [dir |-> << >>, stem |-> c.stem, raw |-> ConfText(c)]

\* the global variable lists of an EXP text st2exp23 wrote: the name of the
\* list marker and the lines between the metadata header and the trailer
ExpGlobalLists(text) ==
    With(Tail(Split(text, "(* @NESTEDCOMMENTS := 'Yes' *)\r\n")),
         LAMBDA pieces :
            [p \in 1..Len(pieces) |->
                With(Split(pieces[p], "\r\n"),
                     LAMBDA lines :
                With2(CHOOSE i \in 1..Len(lines) : HasPrefix(lines[i], "(* @SYMFILEFLAGS"),
                      CHOOSE i \in 1..Len(lines) : HasPrefix(lines[i], "(* @OBJECT_END"),
                     LAMBDA head, trailer :
                        [name |-> Slice(lines[1], Len("(* @GLOBAL_VARIABLE_LIST := '"),
                                        Len(lines[1]) - Len("' *)")),
                         lines |-> SubSeq(lines, head + 1, trailer - 2)]))])

\* the lines of a declaration without the line break that ends it
DeclLines(decl) == Split(TrimRight(decl, "\n"), "\n")

\* convertFile of st2exp23 on the CONFIGURATION source
St2exp23ConvertConfiguration ==
    /\ pc = "conf" /\ NotCalled("st2exp23")
    /\ ret' = Append(ret, [fn |-> "st2exp23",
                           units |-> ExpGlobalLists(
                                        st2exp23_convertFile(ConfFile(arg), ExpPathFlag).block)])
    /\ UNCHANGED << pc, arg, runVars >>

\* convertFile of st2exp35 on the CONFIGURATION source
St2exp35ConvertConfiguration ==
    /\ pc = "conf" /\ NotCalled("st2exp35")
    /\ ret' = Append(ret, With(st2exp35_convertFile(ConfFile(arg), 1),
                               LAMBDA obj : [fn |-> "st2exp35",
                                             units |-> << [name |-> obj.name,
                                                           lines |-> DeclLines(obj.decl)] >>]))
    /\ UNCHANGED << pc, arg, runVars >>

\* convertFile of st2plcopen on the CONFIGURATION source
St2plcopenConvertConfiguration ==
    /\ pc = "conf" /\ NotCalled("st2plcopen")
    /\ ret' = Append(ret, With(st2plcopen_convertFile(ConfFile(arg)),
                               LAMBDA obj : [fn |-> "st2plcopen",
                                             units |-> << [name |-> obj.name,
                                                           lines |-> DeclLines(obj.decl)] >>]))
    /\ UNCHANGED << pc, arg, runVars >>

InitConf == InitCall("any", "conf", ConfSources)

NextConf ==
    \/ St2exp23ConvertConfiguration
    \/ St2exp35ConvertConfiguration
    \/ St2plcopenConvertConfiguration

SpecConf == InitConf /\ [][NextConf]_vars

\* A source tree with nested folders, in the order the directory walk lists
\* its files; a run of st2exp35 finds some of them.
TreeFiles ==
    << [dir |-> << "Lib", "Math" >>, stem |-> "Add",
        raw |-> "FUNCTION Add : INT\nVAR_INPUT\n  a : INT;\nEND_VAR\nAdd := a;\nEND_FUNCTION\n"],
       [dir |-> << "Lib", "Math" >>, stem |-> "Sub",
        raw |-> "FUNCTION Sub : INT\nVAR_INPUT\n  a : INT;\nEND_VAR\nSub := -a;\nEND_FUNCTION\n"],
       [dir |-> << "Lib" >>, stem |-> "Timer",
        raw |-> "FUNCTION_BLOCK Timer\nVAR_OUTPUT\n  q : BOOL;\nEND_VAR\nq := TRUE;\nEND_FUNCTION_BLOCK\n"],
       [dir |-> << >>, stem |-> "Main",
        raw |-> "PROGRAM Main\nVAR\n  n : INT;\nEND_VAR\nn := n + 1;\nEND_PROGRAM\n"],
       [dir |-> << "Tools" >>, stem |-> "Conv",
        raw |-> "TYPE Conv :\nSTRUCT\n  k : INT;\nEND_STRUCT\nEND_TYPE\n"],
       [dir |-> << "Tools", "Lib" >>, stem |-> "Scale",
        raw |-> "FUNCTION Scale : INT\nVAR_INPUT\n  a : INT;\nEND_VAR\nScale := a;\nEND_FUNCTION\n"] >>

\* the largest number of files in one run over the nested tree
MaxTreeFiles == 3

InitTree ==
    /\ tool = "exp35"
    /\ \E sel \in { x \in SUBSET (1..Len(TreeFiles)) :
                       Cardinality(x) >= 1 /\ Cardinality(x) <= MaxTreeFiles } :
          files = SelectSeq(TreeFiles, LAMBDA f : \E i \in sel : TreeFiles[i] = f)
    /\ pc = "export"
    /\ document = << >>
    /\ InitCommon
    /\ NoCall

NextTree ==
    \/ St2exp35File
    \/ St2exp35Write

SpecTree == InitTree /\ [][NextTree]_vars

\* The spellings of the object marker in the EXP texts below.
MarkerForms ==
    { "(* @NESTEDCOMMENTS := 'Yes' *)", "(*@NESTEDCOMMENTS:='No'*)",
      "(*  @NESTEDCOMMENTS  :=  ''  *)" }

\* Objects of an EXP text: each starts with the object marker and has no
\* second one; the fourth is a marker alone, the fifth has a comment that
\* names the key without being a marker.
ExpObjects ==
    { "(* @NESTEDCOMMENTS := 'Yes' *)\n(* @PATH := '' *)\nPROGRAM A\nVAR\nEND_VAR\n(* @END_DECLARATION := '0' *)\n;\nEND_PROGRAM\n",
      "(*@NESTEDCOMMENTS:='No'*)\nTYPE T :\nSTRUCT\nEND_STRUCT\nEND_TYPE\n\n",
      "(*  @NESTEDCOMMENTS  :=  ''  *)\r\nFUNCTION F : INT\r\n",
      "(* @NESTEDCOMMENTS := 'Yes' *)",
      "(* @NESTEDCOMMENTS := 'Yes' *)\n(* @NESTEDCOMMENTS := Yes *)\n(* NESTEDCOMMENTS *)\nx := 1;\n" }

\* What an EXP text has before its first object.
ExpPreambles == { "", "\n\n", "(* exported *)\n(* @NESTEDCOMMENTS = 'Yes' *)\n" }

MaxBlocks == 2

ExpTexts ==
    [prefix : ExpPreambles,
     blocks : UNION { [1..n -> ExpObjects] : n \in 0..MaxBlocks }]

ExpText(a) == a.prefix \o Join(a.blocks, "")

Exp2st23SplitObjects ==
    /\ pc = "objects" /\ NotCalled("exp2st23")
    /\ ret' = Append(ret, [fn |-> "exp2st23", blocks |-> exp2st23_splitObjects(ExpText(arg))])
    /\ UNCHANGED << pc, arg, runVars >>

InitObjects == InitCall("any", "objects", ExpTexts)

NextObjects == Exp2st23SplitObjects

SpecObjects == InitObjects /\ [][NextObjects]_vars

\* The first code lines of the object blocks below.
BlockFirstLines ==
    { "VAR_GLOBAL", "VAR_GLOBAL CONSTANT", "var_global", "VAR_CONFIG", "var_config",
      "FUNCTION_BLOCK Fb", "FUNCTION F : INT", "PROGRAM Main", "TYPE T :", "x := 1;" }

\* What follows the first code line: a declaration alone, or a declaration,
\* the end-of-declaration marker and a body that names other keywords.
BlockRests ==
    { "\n  a : INT;\nEND_VAR\n",
      "\nVAR\nEND_VAR\n(* @END_DECLARATION := '0' *)\nFUNCTION_BLOCK X\nVAR_GLOBAL\n;\n" }

\* Object blocks: gvl is the name of the global-variable-list marker, if the
\* block has one; path the value of its path marker, if it has one.
ObjectBlocks ==
    [gvl : {Absent, Present("Globals"), Present("IO Map"), Present("")},
     path : {Absent, Present("/Lib")},
     first : BlockFirstLines,
     rest : BlockRests]

BlockText(b) ==
    "(* @NESTEDCOMMENTS := 'Yes' *)\n"
    \o (IF b.gvl = Absent THEN "" ELSE "(* @GLOBAL_VARIABLE_LIST := '" \o b.gvl[1] \o "' *)\n")
    \o (IF b.path = Absent THEN "" ELSE "(* @PATH := '" \o b.path[1] \o "' *)\n")
    \o b.first \o b.rest

Exp2st23ParseBlock ==
    /\ pc = "block" /\ NotCalled("exp2st23")
    /\ ret' = Append(ret, [fn |-> "exp2st23", obj |-> exp2st23_parseBlock(BlockText(arg))])
    /\ UNCHANGED << pc, arg, runVars >>

InitBlock == InitCall("any", "block", ObjectBlocks)

NextBlock == Exp2st23ParseBlock

SpecBlock == InitBlock /\ [][NextBlock]_vars

\* Variable types as a declaration writes them: the simple IEC types, some of
\* them in lower case, strings with and without a length, and derived types.
ScalarTypeNames ==
    simpleIECTypes
    \cup { "int", "Bool", " LREAL ", "STRING", "string", "STRING(80)", "string(20)",
           "STRING(MaxLen)", "WSTRING(40)", "MyType", "Axis.State", "POINTER TO INT",
           "T_Ref" }

ArrayBases ==
    { "INT", "bool", "STRING(80)", "STRING", "MyType", "WSTRING(40)",
      "ARRAY[0..2] OF INT", "ARRAY[1..N] OF MyType" }

ArrayHeads == { "ARRAY[0..9] OF ", "ARRAY [1..N] OF ", "array[-1 .. MaxIdx] of " }

TypeNames == ScalarTypeNames \cup { h \o b : h \in ArrayHeads, b \in ArrayBases }

\* writeTypeXML of st2plcopen inside the type element of a variable
St2plcopenWriteTypeXML ==
    /\ pc = "type" /\ NotCalled("st2plcopen")
    /\ ret' = Append(ret, [fn |-> "st2plcopen",
                           node |-> Nest("type", << >>, << writeTypeXML(arg) >>)])
    /\ UNCHANGED << pc, arg, runVars >>

\* extractTypeName of plcopen2st on the type element written before
Plcopen2stExtractTypeName ==
    /\ pc = "type" /\ Len(ret) = 1
    /\ ret' = Append(ret, [fn |-> "plcopen2st", name |-> extractTypeName(ret[1].node)])
    /\ UNCHANGED << pc, arg, runVars >>

InitType == InitCall("any", "type", TypeNames)

NextType ==
    \/ St2plcopenWriteTypeXML
    \/ Plcopen2stExtractTypeName

SpecType == InitType /\ [][NextType]_vars

\* Paths of tree entries, from no segment to five.
EntryPaths ==
    { << >>, << "Device" >>, << "Device", "PLC Logic" >>,
      << "Device", "PLC Logic", "Application" >>,
      << "Device", "PLC Logic", "Application", "Lib" >>,
      << "Device", "PLC Logic", "Application", "Lib", "Math" >>,
      << "Lib" >>, << "Plant", "Line 1", "Cell", "Axis" >> }

\* Values of -strip, and of -base split at ","
StripValues == 0..4

BaseValues == { BasePath, << "Device" >>, << "Device", "PLC Logic" >> }

StripInputs == [path : EntryPaths, stripN : StripValues, base : BaseValues]

\* generateST of exp2st35 on a program unit at arg.path, with the strip main
\* computes from the flags
Exp2st35GenerateST ==
    /\ pc = "strip" /\ NotCalled("exp2st35")
    /\ ret' = Append(ret, [fn |-> "exp2st35",
                           relPath |-> exp2st35_generateST(
                               [name |-> "Main", typeGUID |-> tPOU, path |-> arg.path,
                                decl |-> "PROGRAM Main\nVAR\nEND_VAR", impl |-> ";",
                                isRoot |-> FALSE],
                               exp2st35_stripOf(arg.stripN, arg.base)).relPath])
    /\ UNCHANGED << pc, arg, runVars >>

InitStrip == InitCall("any", "strip", StripInputs)

NextStrip == Exp2st35GenerateST

SpecStrip == InitStrip /\ [][NextStrip]_vars

\* ---------------------------------------------------------------------------
\* Properties
\* ---------------------------------------------------------------------------

\* The unit a .st text holds: kind and name from the first meaningful line,
\* declaration and implementation as the splitter divides the text.
UnitOf(text) ==
    With(NormalizeNewlines(text),
         LAMBDA src :
    With2(Fields(st2exp35_firstCodeLine(Split(src, "\n"))), st2exp35_splitDeclImpl(src),
         LAMBDA header, di :
            [kind |-> IF Len(header) > 0 THEN ToUpper(header[1]) ELSE "",
             name |-> IF Len(header) > 1 THEN TrimSuffix(header[2], ":") ELSE "",
             declaration |-> Join(Fields(di.decl), " "),
             implementation |-> di.impl]))

IsPouFile(f) == UnitOf(f.raw).kind \in {"FUNCTION", "FUNCTION_BLOCK", "PROGRAM"}

\* the file an importer writes for source file f, per format
Path23(f) ==
    PathJoin(<< exp2st23_pathToDir(st2exp23_filePath(f)), UnitOf(f.raw).name \o ".st" >>)

Path35(f) == PathJoin(f.dir \o << f.stem, f.stem \o ".st" >>)

PathPlc(f) == PathJoin(f.dir \o << f.stem \o ".st" >>)

\* source file i of the run is a POU, it alone is destined for path(files[i]),
\* and the importer has written that file
Imported(i, path(_)) ==
    /\ pc = "done"
    /\ IsPouFile(files[i])
    /\ \A j \in 1..Len(files) : j # i => path(files[j]) # path(files[i])
    /\ path(files[i]) \in DOMAIN outFS

\* C1: EXP round trip - every Function, FunctionBlock or Program source unit
\* that st2exp23 exports and exp2st23 imports comes back with the same kind,
\* name, declaration (up to whitespace) and exactly the same implementation.
C1_ExpRoundTrip ==
    tool = "exp23" =>
        \A i \in 1..Len(files) :
            Imported(i, Path23) => UnitOf(outFS[Path23(files[i])]) = UnitOf(files[i].raw)

\* C2: CoDeSys-tree round trip - every Function, FunctionBlock or Program source
\* unit (an empty body included) that st2exp35 exports and exp2st35 imports
\* comes back with the same kind, name, declaration (up to whitespace) and
\* implementation, and no stub is put in its place.
C2_TreeRoundTrip ==
    tool = "exp35" =>
        \A i \in 1..Len(files) :
            Imported(i, Path35) =>
                /\ UnitOf(outFS[Path35(files[i])]) = UnitOf(files[i].raw)
                /\ ~Contains(outFS[Path35(files[i])], "GENERATED STUB")

\* C3: PLCOpen round trip - every Function, FunctionBlock or Program source unit
\* with a Structured Text body that st2plcopen exports and plcopen2st imports
\* comes back with the same kind, name, declaration (up to whitespace, every
\* variable of every VAR block present) and exactly the same implementation.
C3_PlcopenRoundTrip ==
    tool = "plcopen" =>
        \A i \in 1..Len(files) :
            (Imported(i, PathPlc) /\ UnitOf(files[i].raw).implementation # "") =>
                UnitOf(outFS[PathPlc(files[i])]) = UnitOf(files[i].raw)

\* the elements of the written PLCOpen document that stand for one unit each
UnitElements(root) ==
    ChildrenOf(child2(root, "types", "pous"), "pou")
    \o ChildrenOf(child2(root, "types", "dataTypes"), "dataType")
    \o With(ChildrenOf(child(root, "addData"), "data"),
            LAMBDA datas :
               Flatten([i \in 1..Len(datas) |-> allChildren(datas[i], "globalVars")]))

\* element n carries the plain-text declaration extension
HasPlainText(n) ==
    /\ child(n, "addData") # Absent
    /\ \E d \in { c \in Range(allChildren(child(n, "addData")[1], "data")) : TRUE } :
          /\ Contains(attr(d, "name"), "interfaceasplaintext")
          /\ child(d, "InterfaceAsPlainText") # Absent

\* C4: every unit st2plcopen writes appears in the document in both
\* representations, the InterfaceAsPlainText extension and the structured XML.
C4_BothRepresentations ==
    (tool = "plcopen" /\ Len(files) > 0 /\ document # << >>) =>
        \A n \in Range(UnitElements(document[1].root)) : HasPlainText(n)

IsGlobalsFile(f) ==
    f.stem = "Globals" /\ Contains(f.raw, "VAR_GLOBAL") /\ Contains(f.raw, "G : INT := 0;")

\* C5: the global variable list Globals with one INT variable initialised to 0
\* round-trips through PLCOpen - plcopen2st finds, in the document st2plcopen
\* wrote, a global variable list named Globals with the original declaration.
C5_GlobalsRoundTrip ==
    (tool = "plcopen" /\ document # << >> /\ \E i \in 1..Len(files) : IsGlobalsFile(files[i])) =>
        \E u \in Range(plcopen2st_collect(document[1].root).units) :
            /\ u.class = "gvl"
            /\ u.unit.name = "Globals"
            /\ Join(Fields(u.unit.declText), " ") = "VAR_GLOBAL G : INT := 0; END_VAR"

\* C6: name collision - a file an importer has written for an earlier unit keeps
\* that unit's content for the rest of the run (a later unit destined for the
\* same path is reported and skipped, never written over it).
C6_NoOverwrite ==
    [][\A p \in DOMAIN outFS : p \in DOMAIN outFS' /\ outFS'[p] = outFS[p]]_vars

\* the first meaningful line of f starts with none of the kind keywords
Unrecognized(f) ==
    UnitOf(f.raw).kind \notin
        {"FUNCTION", "FUNCTION_BLOCK", "PROGRAM", "TYPE", "VAR_GLOBAL", "CONFIGURATION"}

\* C7: unrecognized unit - an exporter skips, with a warning, a source file
\* whose first meaningful line matches no kind keyword; the file contributes
\* no unit to the output document (here: the tree st2exp35 writes).
C7_UnknownSkipped ==
    (tool = "exp35" /\ document # << >>) =>
        \A i \in 1..Len(files) :
            Unrecognized(files[i]) =>
                /\ \A k \in 1..Len(document[1].entries) :
                      document[1].entries[k].MetaObject[1].Name # Present(xmlEscape(files[i].stem))
                /\ Len(stderr) > 0

\* f is a CONFIGURATION source without any VAR_GLOBAL block
MalformedContainer(f) ==
    UnitOf(f.raw).kind = "CONFIGURATION" /\ ~Contains(ToUpper(f.raw), "VAR_GLOBAL")

\* C8: malformed container - once st2exp23 has met a CONFIGURATION source with
\* zero VAR_GLOBAL blocks the run is over: no later file is converted and no
\* output document is written.
C8_MalformedAborts ==
    tool = "exp23" =>
        \A i \in 1..Len(files) :
            (MalformedContainer(files[i]) /\ idx > i) => (idx = i + 1 /\ document = << >>)

\* C9: an importer whose input yields no objects at all stops with an error; it
\* never ends with the summary line (here: exp2st35 and an empty entry list).
C9_NoObjectsFatal ==
    (tool = "exp35" /\ document # << >> /\ document[1].wellFormed /\ document[1].EntryList
        /\ Len(document[1].entries) = 0)
    => pc # "done"

\* the output bytes of the two exporters that promise CRLF
OutputBytes == IF tool = "exp23" THEN document[1] ELSE document[1].bytes

\* C10: CRLF invariant - the EXP document st2exp23 writes and the bytes
\* st2plcopen sends through crlfWriter end with CRLF and hold no LF that is not
\* directly preceded by CR, whatever line endings the source files use.
C10_CRLF ==
    (tool \in {"exp23", "plcopen"} /\ Len(files) > 0 /\ document # << >>) =>
        /\ HasSuffix(OutputBytes, "\r\n")
        /\ \A k \in Range(Occurrences(OutputBytes, "\n", 0)) :
              k > 0 /\ At(OutputBytes, k - 1) = "\r"

\* a PLCOpen document written from sources with LF, CRLF and lone CR endings
C10_Witness ==
    /\ tool = "plcopen" /\ document # << >>
    /\ \E i \in 1..Len(files) : Contains(files[i].raw, "\r\n")
    /\ \E i \in 1..Len(files) : Contains(files[i].raw, "\r") /\ ~Contains(files[i].raw, "\n")
    /\ Contains(document[1].bytes, ">\r\n</xhtml>\r\n")

\* C11: configuration idempotence - wrapping a global-variable body in
\* CONFIGURATION, unwrapping it and wrapping it again gives the text of the
\* first wrapping, for every name and body (bodies with a comment or attribute
\* line before VAR_GLOBAL included).
C11_WrapIdempotent ==
    (pc = "gvl" /\ Len(ret) = 3) => ret[3] = ret[1]

\* the kind that belongs to the keyword a POU header starts with
KindOfKeyword(word) ==
    CASE word = "FUNCTION_BLOCK" -> "kindFunctionBlock"
      [] word = "FUNCTION" -> "kindFunction"
      [] word = "PROGRAM" -> "kindProgram"

\* C12: classification priority - every detectKind classifies a first line
\* FUNCTION_BLOCK Foo as FunctionBlock and never as Function, and gives a line
\* that starts with a POU keyword and a name the one kind of that keyword.
C12_KindPriority ==
    pc = "kind" =>
        \A k \in 1..Len(ret) :
            /\ HasPrefix(TrimSpace(arg), "FUNCTION_BLOCK ") =>
                  ret[k].kind = "kindFunctionBlock" /\ ret[k].kind # "kindFunction"
            /\ (Len(Fields(arg)) > 1 /\ Fields(arg)[1] \in {"FUNCTION_BLOCK", "FUNCTION", "PROGRAM"})
                  => ret[k].kind = KindOfKeyword(Fields(arg)[1])

\* the four detectKind functions have classified the line FUNCTION_BLOCK Foo
C12_Witness ==
    /\ pc = "kind" /\ arg = "FUNCTION_BLOCK Foo" /\ Len(ret) = 4
    /\ \A k \in 1..4 : ret[k].kind = "kindFunctionBlock"

\* the variables an output block of the declaration declares, in order
ExpectedNames(d) ==
    IF d.kind \in {"VAR_OUTPUT", "VAR_IN_OUT"}
    THEN (IF d.line.form = "var" THEN << d.line.name >> ELSE << >>) \o << "r" >>
    ELSE << >>

\* the lines of a stub after its header (two comment lines and a blank line)
AfterHeader(stub) == SubSeq(Split(stub, "\n"), 4, Len(Split(stub, "\n")))

\* the left-hand sides of the assignment lines
AssignedNames(lines) == [i \in 1..Len(lines) |-> Slice(lines[i], 0, Index(lines[i], " := "))]

\* C13: after its fixed header stubBody emits exactly one assignment per
\* variable declared in a VAR_OUTPUT or VAR_IN_OUT block and nothing else -
\* nothing for the variables of other blocks, for block keyword lines and for
\* lines inside comments or attribute blocks.
C13_StubAssignments ==
    (pc = "stub" /\ arg.line.form # "malformed") =>
        \A k \in 1..Len(ret) :
            /\ ret[k] # Absent
            /\ HasPrefix(ret[k][1], "// ** GENERATED STUB")
            /\ AssignedNames(AfterHeader(ret[k][1])) = ExpectedNames(arg)

\* the value the default-value policy gives a declared variable
PolicyValue(line) ==
    IF line.init # "" THEN line.init
    ELSE IF line.class = "bool" THEN "FALSE"
    ELSE IF line.class = "string" THEN "''"
    ELSE "0"

\* C14: stub default-value policy - the value stubBody assigns to an output
\* variable is its own := initializer when it has one, otherwise FALSE for a
\* boolean type, the empty string literal for a string type and 0 for every
\* other type.
C14_StubDefaults ==
    (pc = "stub" /\ arg.kind \in {"VAR_OUTPUT", "VAR_IN_OUT"} /\ arg.line.form = "var") =>
        \A k \in 1..Len(ret) :
            /\ ret[k] # Absent
            /\ (arg.line.name \o " := " \o PolicyValue(arg.line) \o ";")
                  \in Range(AfterHeader(ret[k][1]))
            /\ "r := 0;" \in Range(AfterHeader(ret[k][1]))

\* C18: totality - stubBody of every importer returns a result for every
\* declaration text, output-block lines without a colon, without a type or
\* with nothing after the colon included.
C18_StubTotal ==
    pc = "stub" => \A k \in 1..Len(ret) : ret[k] # Absent

StubFiles == { p \in DOMAIN outFS : Contains(outFS[p], "// ** GENERATED STUB") }

\* the index of the first line of the stub header
HeaderAt(lines) ==
    SelectSeq([i \in 1..Len(lines) |-> i],
              LAMBDA i : HasPrefix(lines[i], "// ** GENERATED STUB"))[1]

\* the lines before the stub header, without the importer's note on the origin
DeclarationOf(lines) ==
    SelectSeq(SubSeq(lines, 1, HeaderAt(lines) - 1),
              LAMBDA l : ~HasPrefix(l, "// NOTE: Original implementation was non-ST"))

NonBlank(lines) == SelectSeq(lines, LAMBDA l : TrimSpace(l) # "")

\* the lines of a stub file after the two lines of the stub header
BodyOf(lines) == NonBlank(SubSeq(lines, HeaderAt(lines) + 2, Len(lines)))

SourcePath(f) == PathJoin(f.dir \o << f.stem \o ".st" >>)

\* C16: tree-path round trip - after st2exp35 has exported a source tree under
\* the base path and exp2st35 has imported the document with the same base
\* path, every file written lies at the relative path a source file had (same
\* directory, same file name).
C16_TreePathRoundTrip ==
    (tool = "exp35" /\ pc = "done" /\ Len(files) > 0) =>
        \A p \in DOMAIN outFS : \E i \in 1..Len(files) : p = SourcePath(files[i])

\* every element of that tag in the tree below n, n included
RECURSIVE Elements(_, _)
Elements(n, tag) ==
    (IF n.tag = tag THEN << n >> ELSE << >>)
    \o Flatten([i \in 1..Len(n.kids) |-> Elements(n.kids[i], tag)])

TagOfClass(class) ==
    CASE class = "pou" -> "pou"
      [] class = "dut" -> "dataType"
      [] class = "gvl" -> "globalVars"

\* the text of the plain-text declaration extension element n carries in its
\* addData, "" when it carries none (or a blank one)
EmbeddedDeclaration(n) ==
    With(SelectSeq(ChildrenOf(child(n, "addData"), "data"),
                   LAMBDA d : /\ Contains(attr(d, "name"), "interfaceasplaintext")
                              /\ Len(Elements(d, "xhtml")) > 0),
         LAMBDA ext : IF Len(ext) = 0 THEN ""
                      ELSE TrimSpace(textDeep(Elements(ext[1], "xhtml")[1])))

\* the declaration rebuilt from the structured elements of n
Reconstructed(class, n) ==
    CASE class = "pou" -> reconstructDeclaration(n)
      [] class = "dut" -> reconstructDUT(n)
      [] class = "gvl" -> reconstructGVL(n)

\* C17: PLCOpen parsing precedence - every POU, data type and global variable
\* list plcopen2st has read has the text of its embedded InterfaceAsPlainText
\* extension as declaration when its element carries one, and the declaration
\* reconstructed from the structured variable and type elements when not.
C17_PlainTextPrecedence ==
    (tool = "plcopen" /\ pc = "import") =>
        \A k \in 1..Len(units) :
            \E n \in Range(Elements(document[1].root, TagOfClass(units[k].class))) :
                /\ units[k].unit.name = (IF units[k].class = "gvl" /\ attr(n, "name") = ""
                                          THEN "GlobalVars" ELSE attr(n, "name"))
                /\ units[k].unit.declText =
                      IF EmbeddedDeclaration(n) # "" THEN EmbeddedDeclaration(n)
                      ELSE Reconstructed(units[k].class, n)

\* a document with units of both sorts has been read: FB_Ipt, Point and
\* Settings carry the extension, P_Test, Pair and Flags do not
C17_Witness ==
    /\ tool = "plcopen" /\ pc = "import"
    /\ \E k \in 1..Len(units) :
          /\ units[k].class = "pou" /\ units[k].unit.name = "FB_Ipt"
          /\ units[k].unit.declText
               = "FUNCTION_BLOCK FB_Ipt\nVAR_OUTPUT\n  (* lamp *)\n  y : BOOL := TRUE;\nEND_VAR"
    /\ \E k \in 1..Len(units) :
          /\ units[k].class = "pou" /\ units[k].unit.name = "P_Test"
          /\ units[k].unit.declText = "PROGRAM P_Test\nVAR_OUTPUT\n    q : INT;\nEND_VAR\n"
    /\ \E k \in 1..Len(units) :
          /\ units[k].class = "dut" /\ units[k].unit.name = "Point"
          /\ Contains(units[k].unit.declText, "x : INT; // east")
    /\ \E k \in 1..Len(units) :
          /\ units[k].class = "dut" /\ units[k].unit.name = "Pair"
          /\ HasPrefix(units[k].unit.declText, "TYPE Pair :\n")
    /\ \E k \in 1..Len(units) :
          /\ units[k].class = "gvl" /\ units[k].unit.name = "Settings"
          /\ units[k].unit.declText = "VAR_GLOBAL\n  g : INT := 7; // limit\nEND_VAR"
    /\ \E k \in 1..Len(units) :
          /\ units[k].class = "gvl" /\ units[k].unit.name = "Flags"
          /\ units[k].unit.declText = "VAR_GLOBAL\n    f : INT;\nEND_VAR\n"

\* the line is the END_VAR keyword (keywords are not case sensitive)
IsEndVarLine(l) == ToUpper(TrimSpace(l)) = "END_VAR"

IsEndKindLine(l) ==
    ToUpper(TrimSpace(l)) \in {"END_PROGRAM", "END_FUNCTION_BLOCK", "END_FUNCTION"}

IsBlankLine(l) == TrimSpace(l) = ""

\* r is the division of the lines the claim describes: e is the last END_VAR
\* line, lines a..b are the implementation (none when a > b)
SplitAsClaimed(lines, r) ==
    \E e \in 1..Len(lines) :
        /\ IsEndVarLine(lines[e])
        /\ \A i \in (e + 1)..Len(lines) : ~IsEndVarLine(lines[i])
        /\ r.decl = Join(SubSeq(lines, 1, e), "\n")
        /\ \E a \in (e + 1)..(Len(lines) + 1) : \E b \in (a - 1)..Len(lines) :
              /\ r.impl = Join(SubSeq(lines, a, b), "\n")
              /\ \A i \in (e + 1)..(a - 1) : IsBlankLine(lines[i])
              /\ \A i \in (b + 1)..Len(lines) : IsBlankLine(lines[i]) \/ IsEndKindLine(lines[i])
              /\ a <= b => /\ ~IsBlankLine(lines[a])
                           /\ ~IsBlankLine(lines[b]) /\ ~IsEndKindLine(lines[b])

C21_SameSplit ==
    pc = "endDecl" => \A j, k \in 1..Len(ret) : ret[j].decl = ret[k].decl

\* the progress lines of the importer, in order
ProgressLines == SelectSeq(stdout, LAMBDA l : "tag" \in DOMAIN l)

\* the progress line of the unit whose content file p holds: the last one
\* that names p
LastLineOf(p) ==
    With(SelectSeq(ProgressLines, LAMBDA l : l.path = p),
         LAMBDA hits : hits[Len(hits)])

\* C22: in each importer a written unit holds a synthesized stub if and only
\* if its progress line carries the stub tag, and the stubbed total of the
\* summary is the number of progress lines with the tag.
C22_StubReported ==
    /\ \A p \in DOMAIN outFS :
          Contains(outFS[p], "GENERATED STUB") <=> LastLineOf(p).tag # ""
    /\ pc = "done" =>
          stdout[Len(stdout)].stubs
             = Cardinality({ i \in 1..Len(ProgressLines) : ProgressLines[i].tag # "" })

\* the number of units (blocks, tree entries, PLCOpen elements) the importer
\* found in the document
UnitsFound ==
    CASE tool = "exp23" -> Len(exp2st23_splitObjects(ReplaceAll(document[1], "\r\n", "\n")))
      [] tool = "exp35" -> Len(document[1].entries)
      [] tool = "plcopen" -> Len(plcopen2st_collect(document[1].root).units)

\* C23: summary accounting - when an importer finishes, written + skipped is
\* the number of units found in the document (every unit that was not written
\* is counted as skipped) and stubbed <= written.
C23_SummaryAccounting ==
    pc = "done" =>
        /\ stdout[Len(stdout)].done + stdout[Len(stdout)].skippedUnits = UnitsFound
        /\ stdout[Len(stdout)].stubs <= stdout[Len(stdout)].done

\* C24: a CONFIGURATION source is unwrapped into one GlobalVarList unit per
\* VAR_GLOBAL block, no two units of the CONFIGURATION share a name, and a
\* CONFIGURATION with a single block yields one unit named after it (after
\* the name in its first line or after its file).
C24_UnitPerBlock ==
    pc = "conf" =>
        \A k \in 1..Len(ret) :
            /\ Len(ret[k].units) = Len(arg.blocks)
            /\ \A i, j \in 1..Len(ret[k].units) :
                  i # j => ret[k].units[i].name # ret[k].units[j].name
            /\ Len(arg.blocks) = 1 => ret[k].units[1].name \in {arg.name, arg.stem}

\* C25: unwrapping a CONFIGURATION source removes exactly the wrapper's
\* indentation from every line of every VAR_GLOBAL...END_VAR span: the lines
\* extracted are the lines of the blocks as they are without the wrapper.
C25_DedentOneLevel ==
    pc = "conf" =>
        \A k \in 1..Len(ret) :
            Flatten([i \in 1..Len(ret[k].units) |-> ret[k].units[i].lines])
               = Flatten(arg.blocks)

\* the folders of the tree paths of the files fs: every prefix that is not empty
FolderPaths(fs) ==
    UNION { { SubSeq(fs[i].dir, 1, n) : n \in 1..Len(fs[i].dir) } : i \in 1..Len(fs) }

\* the entries of the written document whose path array is BasePath and then p
EntriesAt(p, isFolder) ==
    { e \in 1..Len(document[1].entries) :
         /\ document[1].entries[e].Path = Present(BasePath \o p)
         /\ (document[1].entries[e].MetaObject[1].TypeGuid = Present(tFolder)) = isFolder }

\* C26: st2exp35 has one folder node per distinct treePath prefix, with its own
\* identifier, and the document has exactly one entry per folder and one per
\* unit, each after the entry of its parent folder and with that folder's
\* identifier as parent identifier.
C26_FolderTree ==
    tool = "exp35" =>
        /\ pc = "export" =>
              /\ DOMAIN folders = FolderPaths(SubSeq(files, 1, idx - 1)) \cup {<< >>}
              /\ \A p, q \in DOMAIN folders : p # q => folders[p].guid # folders[q].guid
        /\ pc = "exported" =>
              /\ Len(document[1].entries) = Cardinality(FolderPaths(files)) + Len(files)
              /\ \A q \in FolderPaths(files) : Cardinality(EntriesAt(q, TRUE)) = 1
              /\ \A i \in 1..Len(files) :
                    Cardinality(EntriesAt(Append(files[i].dir, files[i].stem), FALSE)) = 1
              /\ \A q \in FolderPaths(files) \cup
                          { Append(files[i].dir, files[i].stem) : i \in 1..Len(files) } :
                    Len(q) > 1 =>
                       \A e \in EntriesAt(q, TRUE) \cup EntriesAt(q, FALSE) :
                          \E parent \in EntriesAt(SubSeq(q, 1, Len(q) - 1), TRUE) :
                             /\ parent < e
                             /\ document[1].entries[e].MetaObject[1].ParentGuid
                                  = document[1].entries[parent].MetaObject[1].Guid

\* Add and Sub of Lib/Math and Timer of Lib have been exported: two folder
\* entries and three unit entries, the folders first
C26_Witness ==
    /\ tool = "exp35" /\ pc = "exported"
    /\ Len(files) = 3 /\ files[1].dir = << "Lib", "Math" >> /\ files[2].dir = << "Lib", "Math" >>
    /\ files[3].dir = << "Lib" >>
    /\ Len(document[1].entries) = 5
    /\ EntriesAt(<< "Lib" >>, TRUE) = {1}
    /\ EntriesAt(<< "Lib", "Math" >>, TRUE) = {2}
    /\ EntriesAt(<< "Lib", "Math", "Add" >>, FALSE) = {3}
    /\ EntriesAt(<< "Lib", "Math", "Sub" >>, FALSE) = {4}
    /\ EntriesAt(<< "Lib", "Timer" >>, FALSE) = {5}
    /\ document[1].entries[3].MetaObject[1].ParentGuid = folders[<< "Lib", "Math" >>].guid
    /\ document[1].entries[4].MetaObject[1].ParentGuid = folders[<< "Lib", "Math" >>].guid

\* b starts with the object marker and has no second one
OneMarkerBlock(b) ==
    /\ \E m \in MarkerForms : HasPrefix(b, m)
    /\ \A m \in MarkerForms : Len(Occurrences(b, m, 1)) = 0

\* C27: splitObjects returns one block per occurrence of the object marker,
\* in document order; every block starts with the marker and contains no
\* second one; the blocks concatenated are the text from the first marker to
\* its end; a text without a marker yields no block.
C27_SplitObjects ==
    pc = "objects" =>
        \A k \in 1..Len(ret) :
            /\ Len(ret[k].blocks) = Len(arg.blocks)
            /\ \A i \in 1..Len(ret[k].blocks) :
                  OneMarkerBlock(ret[k].blocks[i]) /\ ret[k].blocks[i] = arg.blocks[i]
            /\ Join(ret[k].blocks, "") = SliceFrom(ExpText(arg), Len(arg.prefix))
            /\ Len(arg.blocks) = 0 => ret[k].blocks = << >>

C27_Witness ==
    /\ pc = "objects" /\ arg.prefix # "" /\ Len(arg.blocks) = 2
    /\ Len(ret) = 1 /\ Len(ret[1].blocks) = 2 /\ ret[1].blocks[1] # ret[1].blocks[2]

\* the kind a first code line stands for
KindOfFirstLine(line) ==
    CASE line \in {"VAR_GLOBAL", "VAR_GLOBAL CONSTANT", "var_global"} -> "kindGVL"
      [] line \in {"VAR_CONFIG", "var_config"} -> "kindVarConfig"
      [] line = "FUNCTION_BLOCK Fb" -> "kindFunctionBlock"
      [] line = "FUNCTION F : INT" -> "kindFunction"
      [] line = "PROGRAM Main" -> "kindProgram"
      [] line = "TYPE T :" -> "kindType"
      [] OTHER -> "kindUnknown"

\* C28 as claimed: a block with the global-variable-list marker is a
\* GlobalVarList whatever its first code line is and is named by the marker;
\* a block without the marker has the kind of its first code line.
C28_MarkerAuthoritative ==
    pc = "block" =>
        \A k \in 1..Len(ret) :
            IF arg.gvl # Absent
            THEN ret[k].obj.kind = "kindGVL" /\ ret[k].obj.name = arg.gvl[1]
            ELSE ret[k].obj.kind = KindOfFirstLine(arg.first)

\* C28: a block with the global-variable-list marker is a GlobalVarList, or
\* a VarConfig when its first code line starts with VAR_CONFIG, whatever
\* else its first code line is, and is named by the marker; a block without
\* the marker has the kind of its first code line.
C28_MarkerOrVarConfig ==
    pc = "block" =>
        \A k \in 1..Len(ret) :
            IF arg.gvl # Absent
            THEN /\ ret[k].obj.kind = (IF arg.first \in {"VAR_CONFIG", "var_config"}
                                       THEN "kindVarConfig" ELSE "kindGVL")
                 /\ ret[k].obj.name = arg.gvl[1]
            ELSE ret[k].obj.kind = KindOfFirstLine(arg.first)

C28_Witness ==
    /\ pc = "block" /\ arg.gvl = Present("IO Map") /\ arg.first = "FUNCTION_BLOCK Fb"
    /\ Len(ret) = 1 /\ ret[1].obj.kind = "kindGVL" /\ ret[1].obj.name = "IO Map"

\* a type name without its blanks and in upper case: two spellings of one type
\* have the same canonical form
CanonType(t) == ToUpper(ReplaceAll(ReplaceAll(t, " ", ""), "\t", ""))

\* C29: for every variable type, extractTypeName of what writeTypeXML wrote is
\* the type as declared (up to letter case and blanks): the keyword of a simple
\* type, STRING with its length, ARRAY[lo..hi] OF base with the base resolved
\* the same way, the declared name of any other type.
C29_TypeRoundTrip ==
    (pc = "type" /\ Len(ret) = 2) => CanonType(ret[2].name) = CanonType(arg)

\* the number of segments the flags ask to remove
StripCount(a) == IF a.stripN > 0 THEN a.stripN ELSE Len(a.base)

\* path without its first n segments; nothing is left of a path of n or fewer
WithoutFirst(path, n) == SubSeq(path, n + 1, Len(path))

\* C30: the output file path is built from the entry's path without its first
\* N segments, N being -strip when that is greater than 0 and the number of
\* elements of -base otherwise, for every path length, also for paths of N or
\* fewer segments.
C30_StripEveryLength ==
    pc = "strip" =>
        \A k \in 1..Len(ret) :
            ret[k].relPath = PathJoin(Append(WithoutFirst(arg.path, StripCount(arg)), "Main.st"))

====
